---- MODULE Spec2Model ----
(***************************************************************************)
(* A model of the lazy best-first search engine of blueprint (bp):         *)
(* Peeker, PeekingHeap, Smerger, the scoring functions and the bound       *)
(* extraction tree.  Every Python iterator is modelled as a record, and    *)
(* its __next__ as an operator that returns the iterator's next state      *)
(* together with the value returned (or Stop for StopIteration).           *)
(***************************************************************************)
EXTENDS Integers, Sequences, FiniteSets, TLC

(***************************************************************************)
(* Bounds of the model.                                                    *)
(***************************************************************************)
MaxLen == 3        \* longest input sequence fed to a Peeker
MaxVal == 2        \* input values of the Peeker / PeekingHeap are 0..MaxVal
MaxPeek == 2       \* largest peek_distance tried
PhMaxLen == 2      \* longest input sequence fed to a PeekingHeap
PhMaxVal == 1      \* input values of the PeekingHeap are 0..PhMaxVal
SmMaxLen == 2      \* most filled items in an input stream of a Smerger

(***************************************************************************)
(* Values.  An item of type T is a record; kind "t" stands for a plain     *)
(* comparable value (key) and kind "se" for a ScoredExtraction.  The       *)
(* field id of a "t" item names the place the value came from, it takes    *)
(* no part in any comparison the code makes.                               *)
(***************************************************************************)
\* A local variable of the code: F applied to the value assigned to it.
Bind(v, F(_)) == F(v)

None == [kind |-> "none"]
Stop == [kind |-> "stop"]

T(v, i) == [kind |-> "t", key |-> v, id |-> i]

\* Rational numbers n/d with d > 0, for the float scores.
Rat(n, d) == [n |-> n, d |-> d]
RatLt(a, b) == a.n * b.d < b.n * a.d
RatEq(a, b) == a.n * b.d = b.n * a.d
RatMul(a, b) == Rat(a.n * b.n, a.d * b.d)
RatAdd(a, b) == Rat(a.n * b.d + b.n * a.d, a.d * b.d)
RatDiv(a, m) == Rat(a.n, a.d * m)
RatNeg(a) == Rat(0 - a.n, a.d)
Zero == Rat(0, 1)
One == Rat(1, 1)

\* == on items: ScoredExtraction.__eq__ is identity, and the two sides of
\* every comparison the code makes are distinct objects; plain values are
\* equal when their values are.
ItemEq(a, b) == IF a.kind = "se" THEN FALSE ELSE a.key = b.key

\* ScoredExtraction.__lt__: higher score sorts first.  Plain values compare
\* by their key.
ItemLt(a, b) ==
  IF a.kind = "se" THEN RatLt(b.score, a.score) ELSE a.key < b.key

\* A heap entry of PeekingHeap, the tuple (normalised top, counter, peeker);
\* the peeker is named by its index in peekers.
Entry(top, counter, peeker) ==
  [kind |-> "tuple", top |-> top, counter |-> counter, peeker |-> peeker]

\* Tuple comparison: the first components decide unless they are ==.
EntryLt(e1, e2) ==
  IF ItemEq(e1.top, e2.top) THEN e1.counter < e2.counter
  ELSE ItemLt(e1.top, e2.top)

\* a < b as heapq evaluates it on the elements of a heap.
Lt(a, b) == IF a.kind = "tuple" THEN EntryLt(a, b) ELSE ItemLt(a, b)

(***************************************************************************)
(* ScoredExtraction: [kind |-> "se", extraction, score, field_scores,      *)
(* mass].  extraction is the tuple of ExtractionPoints                     *)
(* [field, entity]; field_scores is the dict, a function on its key set.   *)
(***************************************************************************)
RECURSIVE SumOver(_, _)
SumOver(f, S) ==
  IF S = {} THEN Zero
  ELSE LET x == CHOOSE y \in S : TRUE IN RatAdd(f[x], SumOver(f, S \ {x}))

ExtractionScore(field_scores, mass) ==
  RatDiv(SumOver(field_scores, DOMAIN field_scores), mass)

SE(extraction, score, field_scores, mass) ==
  [kind |-> "se", extraction |-> extraction, score |-> score,
   field_scores |-> field_scores, mass |-> mass]

\* ScoredExtraction.normalize that leaves the score as it is.
SENormalizeKeepingScore(S, mass) == S

\* ScoredExtraction.normalize: only the score is replaced.
SENormalize(S, mass) ==
  [S EXCEPT !.score = ExtractionScore(S.field_scores, mass)]

\* The normalizer handed to a PeekingHeap: the identity of the unit tests,
\* or S.normalize(mass) of BoundPickBestNode.
IdNormalizer == [kind |-> "id"]
MassNormalizer(m) == [kind |-> "mass", mass |-> m]
Normalize(nz, x) ==
  IF nz.kind = "mass" THEN SENormalize(x, nz.mass) ELSE x

(***************************************************************************)
(* Extractions.  An entity is the number of a one-word entity of the       *)
(* document; its words are itself.                                         *)
(***************************************************************************)
Point(f, e) == [field |-> f, entity |-> e]

ExFields(ex) == {ex[i].field : i \in DOMAIN ex}

\* build_dictionary: a later point of the same field overrides.
ExGet(ex, f) ==
  LET I == {i \in DOMAIN ex : ex[i].field = f}
  IN ex[CHOOSE i \in I : \A j \in I : j <= i].entity

RECURSIVE PairwiseDisjointFrom(_, _, _)
PairwiseDisjointFrom(tss, i, seen) ==
  IF i > Len(tss) THEN TRUE
  ELSE IF tss[i] \cap seen # {} THEN FALSE
  ELSE PairwiseDisjointFrom(tss, i + 1, seen \cup tss[i])

PairwiseDisjointAdjacent(tss) ==
  \A i \in 1..(Len(tss) - 1) : tss[i] \cap tss[i + 1] = {}
PairwiseDisjoint(tss) == PairwiseDisjointFrom(tss, 1, {})

RECURSIVE Chain(_)
Chain(ss) == IF ss = <<>> THEN <<>> ELSE Head(ss) \o Chain(Tail(ss))

\* Extraction.merge: [raised |-> OverlappingFieldsError raised, ex |-> result].
ExtractionMerge(extractions) ==
  IF ~PairwiseDisjoint([i \in DOMAIN extractions |-> ExFields(extractions[i])])
  THEN [raised |-> TRUE, ex |-> <<>>]
  ELSE [raised |-> FALSE, ex |-> Chain(extractions)]

(***************************************************************************)
(* Geometry (geometry.py) and document regions (document.py).  A document  *)
(* is [bbox, entities, median_line_height], entities giving the bbox of    *)
(* each entity by its number; a DocRegion is [document, bbox].             *)
(***************************************************************************)
Interval(a, b) == [a |-> a, b |-> b]
ContainsInterval(self, other) ==
  self.a <= other.a /\ other.a <= other.b /\ other.b <= self.b
IntersectsInterval(self, other) == ~(self.b < other.a \/ other.b < self.a)
Min2(a, b) == IF a < b THEN a ELSE b
Max2(a, b) == IF a > b THEN a ELSE b
\* Interval.intersection of two intervals, None if they do not meet.
IntervalIntersection(I1, I2) ==
  IF Max2(I1.a, I2.a) <= Min2(I1.b, I2.b)
  THEN Interval(Max2(I1.a, I2.a), Min2(I1.b, I2.b))
  ELSE None

BBox(ix, iy) == [ix |-> ix, iy |-> iy]
ContainsBBox(self, other) ==
  ContainsInterval(self.ix, other.ix) /\ ContainsInterval(self.iy, other.iy)
IntersectsBBox(self, other) ==
  IntersectsInterval(self.ix, other.ix) /\ IntersectsInterval(self.iy, other.iy)
BBoxIntersection(b1, b2) ==
  IF \/ IntervalIntersection(b1.ix, b2.ix) = None
     \/ IntervalIntersection(b1.iy, b2.iy) = None
  THEN None
  ELSE BBox(IntervalIntersection(b1.ix, b2.ix),
            IntervalIntersection(b1.iy, b2.iy))

IntervalBuild(a, b) == IF a <= b THEN Interval(a, b) ELSE None
BBoxBuild(ix, iy) == IF ix # None /\ iy # None THEN BBox(ix, iy) ELSE None

Document(bbox, entities, median_line_height) ==
  [bbox |-> bbox, entities |-> entities,
   median_line_height |-> median_line_height]

DocRegion(document, bbox) == [document |-> document, bbox |-> bbox]
DocRegionBuild(document, bbox) ==
  IF document # None /\ bbox # None THEN DocRegion(document, bbox) ELSE None
ContainsDocRegion(self, other) ==
  other = None \/ ContainsBBox(self.bbox, other.bbox)
IntersectsDocRegion(self, other) ==
  other # None /\ IntersectsBBox(self.bbox, other.bbox)

RECURSIVE BBoxIntersectionOf(_)
BBoxIntersectionOf(bs) ==
  IF Len(bs) = 1 THEN bs[1]
  ELSE IF BBoxIntersectionOf(Tail(bs)) = None THEN None
  ELSE BBoxIntersection(bs[1], BBoxIntersectionOf(Tail(bs)))

DocRegionIntersection(drs) ==
  IF \E i \in DOMAIN drs : drs[i] = None THEN None
  ELSE IF drs = <<>> THEN None
  ELSE DocRegionBuild(drs[1].document,
                      BBoxIntersectionOf([i \in DOMAIN drs |-> drs[i].bbox]))

(***************************************************************************)
(* Spatial formulas (spatial_formula.py).  A term is [field,               *)
(* transformation], the transformation None or the band of a predicate it  *)
(* applies; a literal is Intersect(terms) or IsContained(lhs, rhs).  The   *)
(* predicates of the rules give conjunctions of literals only, so a        *)
(* formula is the set of the literals of its one conjunction, which is     *)
(* what simplify and DNF make of a conjunction of conjunctions; the empty  *)
(* set is True.                                                            *)
(***************************************************************************)
DocRegionTerm(field, transformation) ==
  [field |-> field, transformation |-> transformation]
Intersect(terms) == [kind |-> "intersect", terms |-> terms]
IsContained(lhs, rhs) == [kind |-> "is_contained", lhs |-> lhs, rhs |-> rhs]

LiteralTerms(predicate) ==
  IF predicate.kind = "intersect" THEN predicate.terms
  ELSE {predicate.lhs, predicate.rhs}

TermIsComputable(term, fields) == term.field \in fields
IsComputable(predicate, fields) ==
  \A term \in LiteralTerms(predicate) : TermIsComputable(term, fields)

IsNakedDocRegion(term, target_field) ==
  term.field = target_field /\ term.transformation = None

IsRestrictor(predicate, target_field, fields) ==
  IF predicate.kind = "intersect"
  THEN \A term \in predicate.terms :
         IsNakedDocRegion(term, target_field) \/ TermIsComputable(term, fields)
  ELSE \/ /\ IsNakedDocRegion(predicate.lhs, target_field)
          /\ TermIsComputable(predicate.rhs, fields)
       \/ /\ TermIsComputable(predicate.lhs, fields)
          /\ IsNakedDocRegion(predicate.rhs, target_field)

\* weaken and then simplify: the literals replaced by True drop out.
Weaken(f, field, fields) ==
  {g \in f : IsRestrictor(g, field, fields) \/ IsComputable(g, fields)}

RestrictivePower(f, field, fields) ==
  Cardinality({g \in f : IsRestrictor(g, field, fields)})

(***************************************************************************)
(* are_arranged (rules/spatial.py).  The predicate is [name, direction,    *)
(* taper, min_distance, max_distance, document]: max_distance is None or   *)
(* Some(distance), and document is the one the atom of the predicate is    *)
(* bound to, which score is called with.  Lengths are integers, and a      *)
(* score is the rational _taper_error computes.                            *)
(***************************************************************************)
Some(value) == [kind |-> "some", value |-> value]

AreArranged(direction, taper, min_distance, max_distance, document) ==
  [name |-> "are_arranged", direction |-> direction, taper |-> taper,
   min_distance |-> min_distance, max_distance |-> max_distance,
   document |-> document]

DirectionReverse(direction) ==
  CASE direction = "LEFT_TO_RIGHT" -> "RIGHT_TO_LEFT"
    [] direction = "RIGHT_TO_LEFT" -> "LEFT_TO_RIGHT"
    [] direction = "TOP_DOWN" -> "BOTTOM_UP"
    [] direction = "BOTTOM_UP" -> "TOP_DOWN"

TaperError(raw_error, tolerance, taper) ==
  IF Max2(0, raw_error - tolerance) = 0 THEN One
  ELSE IF taper = 0 THEN Zero
  ELSE IF Max2(0, raw_error - tolerance) >= taper THEN Zero
  ELSE Rat(taper - Max2(0, raw_error - tolerance), taper)

LengthInNativeUnits(length_from_schema, doc) ==
  length_from_schema * doc.median_line_height

ScoreIntervalPrecedence(self, i1, i2, document) ==
  TaperError(
    Max2(Max2(0, i1.b + LengthInNativeUnits(self.min_distance, document) - i2.a),
         IF self.max_distance # None
         THEN Max2(0, i2.a - (i1.b + LengthInNativeUnits(self.max_distance.value,
                                                        document)))
         ELSE 0),
    0, LengthInNativeUnits(self.taper, document))

ContainmentInterval(self, I, bounds, document, reverse) ==
  IF reverse
  THEN IntervalBuild(
         bounds.a,
         I.a - LengthInNativeUnits(self.min_distance - self.taper, document))
  ELSE IntervalBuild(
         I.b + LengthInNativeUnits(self.min_distance - self.taper, document),
         bounds.b)

IntersectionInterval(self, I, bounds, document, reverse) ==
  IF self.max_distance = None THEN None
  ELSE IF reverse
  THEN IntervalBuild(
         I.a - LengthInNativeUnits(self.max_distance.value + self.taper,
                                    document),
         bounds.b)
  ELSE IntervalBuild(
         bounds.a,
         I.b + LengthInNativeUnits(self.max_distance.value + self.taper,
                                    document))

ArrangedScore(self, entities) ==
  Bind(<<self.document.entities[entities[1]],
         self.document.entities[entities[2]]>>,
       LAMBDA B :
         CASE self.direction = "LEFT_TO_RIGHT" ->
                ScoreIntervalPrecedence(self, B[1].ix, B[2].ix, self.document)
           [] self.direction = "RIGHT_TO_LEFT" ->
                ScoreIntervalPrecedence(self, B[2].ix, B[1].ix, self.document)
           [] self.direction = "TOP_DOWN" ->
                ScoreIntervalPrecedence(self, B[1].iy, B[2].iy, self.document)
           [] self.direction = "BOTTOM_UP" ->
                ScoreIntervalPrecedence(self, B[2].iy, B[1].iy, self.document))

ContainmentBand(self, D, direction) ==
  CASE direction = "LEFT_TO_RIGHT" ->
         DocRegionBuild(D.document, BBoxBuild(
           ContainmentInterval(self, D.bbox.ix, D.document.bbox.ix, D.document,
                               FALSE),
           D.document.bbox.iy))
    [] direction = "RIGHT_TO_LEFT" ->
         DocRegionBuild(D.document, BBoxBuild(
           ContainmentInterval(self, D.bbox.ix, D.document.bbox.ix, D.document,
                               TRUE),
           D.document.bbox.iy))
    [] direction = "TOP_DOWN" ->
         DocRegionBuild(D.document, BBoxBuild(
           D.document.bbox.ix,
           ContainmentInterval(self, D.bbox.iy, D.document.bbox.iy, D.document,
                               FALSE)))
    [] direction = "BOTTOM_UP" ->
         DocRegionBuild(D.document, BBoxBuild(
           D.document.bbox.ix,
           ContainmentInterval(self, D.bbox.iy, D.document.bbox.iy, D.document,
                               TRUE)))

\* The band is chosen by the direction of the predicate: the code reads
\* self.direction and leaves its direction argument unused.
IntersectionBand(self, D, direction) ==
  CASE self.direction = "LEFT_TO_RIGHT" ->
         DocRegionBuild(D.document, BBoxBuild(
           IntersectionInterval(self, D.bbox.ix, D.document.bbox.ix,
                                D.document, FALSE),
           D.document.bbox.iy))
    [] self.direction = "RIGHT_TO_LEFT" ->
         DocRegionBuild(D.document, BBoxBuild(
           IntersectionInterval(self, D.bbox.ix, D.document.bbox.ix,
                                D.document, TRUE),
           D.document.bbox.iy))
    [] self.direction = "TOP_DOWN" ->
         DocRegionBuild(D.document, BBoxBuild(
           D.document.bbox.ix,
           IntersectionInterval(self, D.bbox.iy, D.document.bbox.iy,
                                D.document, FALSE)))
    [] self.direction = "BOTTOM_UP" ->
         DocRegionBuild(D.document, BBoxBuild(
           D.document.bbox.ix,
           IntersectionInterval(self, D.bbox.iy, D.document.bbox.iy,
                                D.document, TRUE)))

\* A transformation of a term of phi: the band of self the lambda calls.
Band(band, self, direction) ==
  [band |-> band, self |-> self, direction |-> direction]

Transform(transformation, D) ==
  IF transformation.band = "containment"
  THEN ContainmentBand(transformation.self, D, transformation.direction)
  ELSE IntersectionBand(transformation.self, D, transformation.direction)

ArrangedPhi(self, fields) ==
  {IsContained(
     DocRegionTerm(fields[2], None),
     DocRegionTerm(fields[1], Band("containment", self, self.direction))),
   IsContained(
     DocRegionTerm(fields[1], None),
     DocRegionTerm(fields[2],
                   Band("containment", self, DirectionReverse(self.direction))))}
    \cup
  (IF self.max_distance # None
   THEN {Intersect({
           DocRegionTerm(fields[2], None),
           DocRegionTerm(fields[1],
                         Band("intersection", self, self.direction))}),
         Intersect({
           DocRegionTerm(fields[1], None),
           DocRegionTerm(fields[2],
                         Band("intersection", self,
                              DirectionReverse(self.direction)))})}
   ELSE {})

\* Predicate.phi, which only are_arranged overrides here.
PredicatePhi(predicate, fields) ==
  IF predicate.name = "are_arranged" THEN ArrangedPhi(predicate, fields)
  ELSE {}

(***************************************************************************)
(* Rules.  An atom is [type |-> "atom", fields, predicate]; a connective   *)
(* is [type |-> "conjunction" or "disjunction", rules] over atoms.  A      *)
(* predicate is AreDisjoint, or a custom predicate: Scores(r) scores r     *)
(* whatever the entities are, ScoresBy(table) scores its one entity e      *)
(* table[e]; neither overrides Predicate.phi.  AreArranged is above.       *)
(***************************************************************************)
Atom(fields, predicate) ==
  [type |-> "atom", fields |-> fields, predicate |-> predicate]
Connective(type, rules) == [type |-> type, rules |-> rules]
AreDisjoint == [name |-> "are_disjoint"]
Scores(r) == [name |-> "scores", score |-> r]
ScoresBy(table) == [name |-> "scores_by", table |-> table]

Range(s) == {s[i] : i \in DOMAIN s}

RuleFields(R) ==
  IF R.type = "atom" THEN Range(R.fields)
  ELSE UNION {Range(R.rules[i].fields) : i \in DOMAIN R.rules}

PredicateScore(predicate, entities) ==
  CASE predicate.name = "are_disjoint" ->
         IF entities[1] # entities[2] THEN One ELSE Zero
    [] predicate.name = "scores_by" -> predicate.table[entities[1]]
    [] predicate.name = "are_arranged" -> ArrangedScore(predicate, entities)
    [] OTHER -> predicate.score

AtomRuleScore(A, ex) ==
  IF \E i \in DOMAIN A.fields : A.fields[i] \notin ExFields(ex) THEN One
  ELSE PredicateScore(A.predicate,
                      [i \in DOMAIN A.fields |-> ExGet(ex, A.fields[i])])

RECURSIVE RatProduct(_)
RatProduct(s) == IF s = <<>> THEN One ELSE RatMul(Head(s), RatProduct(Tail(s)))
RECURSIVE RatMax(_)
RatMax(s) ==
  IF Len(s) = 1 THEN s[1]
  ELSE LET m == RatMax(Tail(s)) IN IF RatLt(s[1], m) THEN m ELSE s[1]

ConnectiveScore(type, sub) ==
  IF type = "conjunction" THEN RatProduct(sub) ELSE RatMax(sub)

RuleScore(R, ex) ==
  IF R.type = "atom" THEN AtomRuleScore(R, ex)
  ELSE ConnectiveScore(R.type,
         [i \in DOMAIN R.rules |-> AtomRuleScore(R.rules[i], ex)])

RuleIsDecidable(R, ex) == RuleFields(R) \subseteq ExFields(ex)

UpperBoundAtom(A, ex) ==
  IF RuleIsDecidable(A, ex) THEN AtomRuleScore(A, ex) ELSE One
UpperBound(R, ex) ==
  IF R.type = "atom" THEN UpperBoundAtom(R, ex)
  ELSE ConnectiveScore(R.type,
         [i \in DOMAIN R.rules |-> UpperBoundAtom(R.rules[i], ex)])

(***************************************************************************)
(* scoring.py                                                              *)
(***************************************************************************)
MinimumFieldScore == Rat(1, 10)

\* assignment_is_valid for a field that has an assignment.
AssignmentIsValidWeak(field_score) == ~RatLt(field_score, MinimumFieldScore)
AssignmentIsValid(field_score) == RatLt(MinimumFieldScore, field_score)

SEFields(S) == ExFields(S.extraction)
SEIsEmpty(S) == S.extraction = <<>>
SEValid(S) == \A f \in SEFields(S) : AssignmentIsValid(S.field_scores[f])

\* ScoredExtraction.build() with its defaults.
SEBuild == SE(<<>>, Zero, <<>>, 1)

DictMerge(a, b) ==
  [k \in DOMAIN a \cup DOMAIN b |-> IF k \in DOMAIN b THEN b[k] ELSE a[k]]

RECURSIVE DictMergeAll(_)
DictMergeAll(ds) ==
  IF ds = <<>> THEN <<>>
  ELSE DictMerge(DictMergeAll(SubSeq(ds, 1, Len(ds) - 1)), ds[Len(ds)])

\* The product of the scores of the rules in Rs, in any order.
RECURSIVE RuleProduct(_, _)
RuleProduct(Rs, ex) ==
  IF Rs = {} THEN One
  ELSE LET R == CHOOSE X \in Rs : TRUE
       IN RatMul(RuleScore(R, ex), RuleProduct(Rs \ {R}, ex))

\* scoring.merge.  The cache of rule scores is left out: a rule's score is
\* a function of the entities its fields are assigned, so a cached score is
\* the score computed anew.  The result is Error when Extraction.merge
\* raises.
Error == [kind |-> "error"]

MergeFieldScores(extraction, field_scores, rules) ==
  [f \in DOMAIN field_scores |->
     IF f \notin ExFields(extraction) THEN field_scores[f]
     ELSE IF \E R \in rules :
               /\ ~RuleIsDecidable(R, extraction)
               /\ RatEq(UpperBound(R, extraction), Zero)
               /\ f \in RuleFields(R)
     THEN Zero
     ELSE RatMul(field_scores[f],
            RuleProduct({R \in rules : /\ RuleIsDecidable(R, extraction)
                                       /\ f \in RuleFields(R)},
                        extraction))]

Merge(scored_extractions, rules, mass) ==
  Bind(ExtractionMerge([i \in DOMAIN scored_extractions |->
                          scored_extractions[i].extraction]),
       LAMBDA m :
         IF m.raised THEN Error
         ELSE Bind(MergeFieldScores(
                     m.ex,
                     DictMergeAll([i \in DOMAIN scored_extractions |->
                                     scored_extractions[i].field_scores]),
                     rules),
                   LAMBDA field_scores :
                     SE(m.ex, ExtractionScore(field_scores, mass),
                        field_scores, mass)))

(***************************************************************************)
(* heapq on a 1-based sequence: the parent of position p is p \div 2, its  *)
(* children are 2p and 2p+1.                                               *)
(***************************************************************************)
RECURSIVE SiftDown(_, _, _, _)
SiftDown(h, newitem, startpos, pos) ==
  IF pos > startpos /\ Lt(newitem, h[pos \div 2])
  THEN SiftDown([h EXCEPT ![pos] = h[pos \div 2]], newitem, startpos,
                pos \div 2)
  ELSE [h EXCEPT ![pos] = newitem]

\* The smaller child of pos: the right one unless the left one is smaller.
SmallerChild(h, pos) ==
  IF 2 * pos + 1 <= Len(h) /\ ~Lt(h[2 * pos], h[2 * pos + 1])
  THEN 2 * pos + 1 ELSE 2 * pos

RECURSIVE SiftUpLoop(_, _)
SiftUpLoop(h, pos) ==
  IF 2 * pos <= Len(h)
  THEN SiftUpLoop([h EXCEPT ![pos] = h[SmallerChild(h, pos)]],
                  SmallerChild(h, pos))
  ELSE [h |-> h, pos |-> pos]

SiftUp(h, pos) ==
  Bind(SiftUpLoop(h, pos), LAMBDA r : SiftDown(r.h, h[pos], pos, r.pos))

HeapPushNoSift(h, x) == Append(h, x)
HeapPush(h, x) == SiftDown(Append(h, x), x, 1, Len(h) + 1)

\* heappop: the returned item and the heap left.
HeapPop(h) ==
  IF Len(h) > 1
  THEN [out |-> h[1],
        h |-> SiftUp([SubSeq(h, 1, Len(h) - 1) EXCEPT ![1] = h[Len(h)]], 1)]
  ELSE [out |-> h[Len(h)], h |-> <<>>]

(***************************************************************************)
(* Iterators.  kind "list" is iter(sequence), the other kinds are the      *)
(* bound nodes.  IterNext, defined after them, is next(it): it returns     *)
(* [it |-> the iterator afterwards, out |-> the item or Stop].            *)
(***************************************************************************)
ListIter(s) == [kind |-> "list", items |-> s]

RECURSIVE IterNext(_)

(***************************************************************************)
(* Peeker                                                                  *)
(***************************************************************************)
PeekerNew(ts, d) ==
  [ts |-> ts, peek_distance |-> d, inited |-> FALSE, heap |-> <<>>]

PeekerStep(p) ==
  Bind(IterNext(p.ts),
       LAMBDA r :
         IF r.out.kind = "stop"
         THEN [p EXCEPT !.ts = r.it]
         ELSE [p EXCEPT !.ts = r.it, !.heap = HeapPush(p.heap, r.out)])

RECURSIVE PeekerStepTimes(_, _)
PeekerStepTimes(p, n) ==
  IF n = 0 THEN p ELSE PeekerStepTimes(PeekerStep(p), n - 1)

PeekerInitializeOneMore(p) ==
  PeekerStepTimes([p EXCEPT !.inited = TRUE, !.heap = <<>>],
                  p.peek_distance + 1)
PeekerInitialize(p) ==
  PeekerStepTimes([p EXCEPT !.inited = TRUE, !.heap = <<>>], p.peek_distance)

PeekerPop(p) ==
  IF p.heap = <<>>
  THEN [it |-> p, out |-> Stop]
  ELSE Bind(HeapPop(p.heap),
            LAMBDA r : [it |-> [p EXCEPT !.heap = r.h], out |-> r.out])

PeekerNext(p) ==
  PeekerPop(PeekerStep(IF ~p.inited THEN PeekerInitialize(p) ELSE p))

PeekerTop(p) == IF p.heap # <<>> THEN p.heap[1] ELSE None

(***************************************************************************)
(* PeekingHeap.  A heap entry is the tuple (normalised top, counter,       *)
(* peeker); the peeker is named by its index in peekers.                   *)
(***************************************************************************)
PeekingHeapNew(tss, normalizer, d) ==
  [tss |-> tss, normalizer |-> normalizer, peek_distance |-> d,
   inited |-> FALSE, heap |-> <<>>, counter |-> 0, peekers |-> <<>>]

PeekingHeapAddIfMore(H, i) ==
  IF H.peekers[i].ts.items # <<>>
  THEN [H EXCEPT
          !.heap = HeapPush(H.heap,
                     Entry(Normalize(H.normalizer, PeekerTop(H.peekers[i])),
                           H.counter, i)),
          !.counter = H.counter + 1]
  ELSE H
PeekingHeapAdd(H, i) ==
  IF PeekerTop(H.peekers[i]) # None
  THEN [H EXCEPT
          !.heap = HeapPush(H.heap,
                     Entry(Normalize(H.normalizer, PeekerTop(H.peekers[i])),
                           H.counter, i)),
          !.counter = H.counter + 1]
  ELSE H

RECURSIVE PeekingHeapInitLoop(_, _)
PeekingHeapInitLoop(H, i) ==
  IF i > Len(H.tss) THEN H
  ELSE PeekingHeapInitLoop(
         PeekingHeapAdd(
           [H EXCEPT !.peekers =
              Append(H.peekers,
                     PeekerInitialize(PeekerNew(H.tss[i], H.peek_distance)))],
           i),
         i + 1)

PeekingHeapInitialize(H) ==
  PeekingHeapInitLoop([H EXCEPT !.inited = TRUE, !.heap = <<>>], 1)

\* __next__ once the heap entry e has been popped: e.out.peeker is the
\* peeker that produces the item.
PeekingHeapProduce(H, e) ==
  Bind(PeekerNext(H.peekers[e.out.peeker]),
       LAMBDA r :
         IF r.out.kind = "stop"
         THEN [it |-> [H EXCEPT !.heap = e.h, !.peekers[e.out.peeker] = r.it],
               out |-> Stop]
         ELSE [it |-> PeekingHeapAdd(
                        [H EXCEPT !.heap = e.h,
                                  !.peekers[e.out.peeker] = r.it],
                        e.out.peeker),
               out |-> Normalize(H.normalizer, r.out)])

PeekingHeapPop(H) ==
  IF H.heap = <<>> THEN [it |-> H, out |-> Stop]
  ELSE PeekingHeapProduce(H, HeapPop(H.heap))

PeekingHeapNext(H) ==
  PeekingHeapPop(IF ~H.inited THEN PeekingHeapInitialize(H) ELSE H)

PeekingHeapTop(H) == IF H.heap # <<>> THEN H.heap[1].top ELSE None

(***************************************************************************)
(* The EZBox index (ez_box.py) over bboxes of geometry.py.  An EZBox is    *)
(* [bbox, ideal_width_to_height_ratio, straddlers, child_nodes]; an item   *)
(* is [id, bbox], and bbox_getter returns its bbox.  Coordinates are       *)
(* integers: the boxes of the inputs are chosen so that every centre the   *)
(* splits compute is one.                                                  *)
(***************************************************************************)
EZBox(bbox, ideal_width_to_height_ratio) ==
  [bbox |-> bbox, ideal_width_to_height_ratio |-> ideal_width_to_height_ratio,
   straddlers |-> {}, child_nodes |-> <<>>]

\* "if len(self.straddlers) > 5:  # FIXME: Magic number."
MagicNumber == 5

Abs(x) == IF x < 0 THEN 0 - x ELSE x

\* v_error < h_error in _split: with r = width / height and i the ideal
\* ratio, |1 - r/(2i)| < |1 - 2r/i|, both sides times 2 i height.
VerticalSplit(self) ==
  Abs(2 * self.ideal_width_to_height_ratio * (self.bbox.iy.b - self.bbox.iy.a)
        - (self.bbox.ix.b - self.bbox.ix.a))
    < Abs(2 * self.ideal_width_to_height_ratio * (self.bbox.iy.b - self.bbox.iy.a)
            - 4 * (self.bbox.ix.b - self.bbox.ix.a))

Center(I) == (I.b + I.a) \div 2

\* The child_nodes _split makes.
SplitChildNodes(self) ==
  IF VerticalSplit(self)
  THEN << EZBox(BBox(Interval(self.bbox.ix.a, Center(self.bbox.ix)),
                     self.bbox.iy), self.ideal_width_to_height_ratio),
          EZBox(BBox(Interval(Center(self.bbox.ix), self.bbox.ix.b),
                     self.bbox.iy), self.ideal_width_to_height_ratio) >>
  ELSE << EZBox(BBox(self.bbox.ix,
                     Interval(self.bbox.iy.a, Center(self.bbox.iy))),
                self.ideal_width_to_height_ratio),
          EZBox(BBox(self.bbox.ix,
                     Interval(Center(self.bbox.iy), self.bbox.iy.b)),
                self.ideal_width_to_height_ratio) >>

\* The items of a set in the order of their ids.
ById(ts) ==
  [k \in 1..Cardinality(ts) |->
     CHOOSE t \in ts : Cardinality({u \in ts : u.id < t.id}) = k - 1]

RECURSIVE EZInsert(_, _)
RECURSIVE EZInsertAll(_, _, _)
\* EZBox.insert of an item within bounds.
EZInsert(self, t) ==
  IF self.child_nodes # <<>>
  THEN IF \E i \in DOMAIN self.child_nodes :
            ContainsBBox(self.child_nodes[i].bbox, t.bbox)
       THEN Bind(CHOOSE i \in DOMAIN self.child_nodes :
                   /\ ContainsBBox(self.child_nodes[i].bbox, t.bbox)
                   /\ \A j \in 1..(i - 1) :
                        ~ContainsBBox(self.child_nodes[j].bbox, t.bbox),
                 LAMBDA i : [self EXCEPT
                               !.child_nodes[i] = EZInsert(self.child_nodes[i], t)])
       ELSE [self EXCEPT !.straddlers = @ \cup {t}]
  ELSE IF Cardinality(self.straddlers \cup {t}) > MagicNumber
  THEN EZInsertAll([self EXCEPT !.straddlers = {},
                                !.child_nodes = SplitChildNodes(self)],
                   ById(self.straddlers \cup {t}), 1)
  ELSE [self EXCEPT !.straddlers = @ \cup {t}]

\* "for t in ts: self.insert(t)" at the end of _split, from the k-th on.
EZInsertAll(self, ts, k) ==
  IF k > Len(ts) THEN self
  ELSE EZInsertAll(EZInsert(self, ts[k]), ts, k + 1)

RECURSIVE TsContainedIn(_, _)
RECURSIVE TsIntersecting(_, _)
TsContainedInLeavesOnly(self, bbox_) ==
  IF self.child_nodes # <<>>
  THEN Chain([i \in DOMAIN self.child_nodes |->
                TsContainedIn(self.child_nodes[i], bbox_)])
  ELSE ById({t \in self.straddlers : ContainsBBox(bbox_, t.bbox)})
TsContainedIn(self, bbox_) ==
  IF BBoxIntersection(bbox_, self.bbox) = None THEN <<>>
  ELSE ById({straddler \in self.straddlers :
               ContainsBBox(BBoxIntersection(bbox_, self.bbox), straddler.bbox)})
         \o Chain([i \in DOMAIN self.child_nodes |->
                     TsContainedIn(self.child_nodes[i],
                                   BBoxIntersection(bbox_, self.bbox))])

TsIntersecting(self, bbox_) ==
  IF BBoxIntersection(bbox_, self.bbox) = None THEN <<>>
  ELSE ById({straddler \in self.straddlers :
               IntersectsBBox(BBoxIntersection(bbox_, self.bbox), straddler.bbox)})
         \o Chain([i \in DOMAIN self.child_nodes |->
                     TsIntersecting(self.child_nodes[i],
                                    BBoxIntersection(bbox_, self.bbox))])

(***************************************************************************)
(* Prefilters.  A DocRegionPrefilter is [field, phi, document, ts, nones,  *)
(* best, order]: ts are the items its EZDocRegion received, in the order   *)
(* of the calls of add.  EZBox keeps the items in Python sets of objects   *)
(* hashed by id, and get collects its answer in another, whose iteration   *)
(* orders are not specified; order says whether the model iterates them in *)
(* insertion order or in reverse.                                          *)
(***************************************************************************)
TrivialPrefilter == [kind |-> "trivial", list |-> <<>>, best |-> None]

DocRegionPrefilter(field, phi, document, order) ==
  [kind |-> "doc_region", field |-> field, phi |-> phi, document |-> document,
   ts |-> <<>>, nones |-> <<>>, best |-> None, order |-> order]

Reversed(s) == [i \in 1..Len(s) |-> s[Len(s) + 1 - i]]

PrefilterAdd(P, t) ==
  IF P.kind = "trivial"
  THEN [P EXCEPT !.best = IF P.best = None \/ Lt(t, P.best) THEN t ELSE P.best,
                 !.list = Append(P.list, t)]
  ELSE [P EXCEPT !.best = IF P.best = None \/ Lt(t, P.best) THEN t ELSE P.best,
                 !.nones = IF P.field \notin SEFields(t)
                           THEN Append(P.nones, t) ELSE P.nones,
                 !.ts = IF P.field \notin SEFields(t)
                        THEN P.ts ELSE Append(P.ts, t)]

\* The results of the steps of get_doc_region_restriction that are bools.
True == [kind |-> "bool", value |-> TRUE]
False == [kind |-> "bool", value |-> FALSE]

RECURSIVE SetToSeq(_)
SetToSeq(S) ==
  IF S = {} THEN <<>>
  ELSE Bind(CHOOSE x \in S : TRUE, LAMBDA x : <<x>> \o SetToSeq(S \ {x}))

GetDocRegion(term, M_feeder, document) ==
  IF term.transformation # None
  THEN Transform(
         term.transformation,
         DocRegionBuild(document,
                        document.entities[ExGet(M_feeder.extraction, term.field)]))
  ELSE DocRegionBuild(document,
                      document.entities[ExGet(M_feeder.extraction, term.field)])

ProcessIntersect(intersect, field, M_feeder, document) ==
  Bind({GetDocRegion(term, M_feeder, document) :
          term \in {t \in intersect.terms :
                      t.field # field /\ t.field \in SEFields(M_feeder)}},
       LAMBDA regions :
         IF /\ \E t \in intersect.terms : t.field = field
            /\ ~\E t \in intersect.terms :
                  t.field # field /\ t.field \in SEFields(M_feeder)
         THEN True
         ELSE IF DocRegionIntersection(SetToSeq(regions)) = None THEN False
         ELSE IF ~\E t \in intersect.terms : t.field = field THEN True
         ELSE DocRegionIntersection(SetToSeq(regions)))

ProcessIsContained(is_contained, field, M_feeder, document) ==
  IF \E field0 \in {is_contained.lhs.field, is_contained.rhs.field} :
       field0 # field /\ field0 \notin SEFields(M_feeder)
  THEN True
  ELSE IF is_contained.lhs.field = field
  THEN (IF GetDocRegion(is_contained.rhs, M_feeder, document) # None
        THEN GetDocRegion(is_contained.rhs, M_feeder, document) ELSE False)
  ELSE IF GetDocRegion(is_contained.lhs, M_feeder, document) = None THEN True
  ELSE IF GetDocRegion(is_contained.rhs, M_feeder, document) = None THEN False
  ELSE IF ContainsDocRegion(GetDocRegion(is_contained.rhs, M_feeder, document),
                            GetDocRegion(is_contained.lhs, M_feeder, document))
  THEN True ELSE False

\* The _Conjunction of the regions the literals gave: superset is None or
\* the intersection of those of the IsContained literals, intersection_sets
\* is {} for None or those of the Intersect literals.
ConjunctionOf(contained, intersects) ==
  IF contained = {} /\ intersects = {} THEN True
  ELSE IF contained = {}
  THEN [superset |-> None, intersection_sets |-> intersects]
  ELSE IF DocRegionIntersection(SetToSeq(contained)) = None THEN False
  ELSE IF \E s \in intersects :
            DocRegionIntersection(
              <<DocRegionIntersection(SetToSeq(contained)), s>>) = None
  THEN False
  ELSE [superset |-> DocRegionIntersection(SetToSeq(contained)),
        intersection_sets |->
          {DocRegionIntersection(
             <<DocRegionIntersection(SetToSeq(contained)), s>>) :
             s \in intersects}]

ProcessConjunction(conjunction, field, M_feeder, document) ==
  Bind({ProcessIsContained(literal, field, M_feeder, document) :
          literal \in {l \in conjunction : l.kind = "is_contained"}},
       LAMBDA contained :
         Bind({ProcessIntersect(literal, field, M_feeder, document) :
                 literal \in {l \in conjunction : l.kind = "intersect"}},
              LAMBDA intersects :
                IF False \in contained \cup intersects THEN False
                ELSE ConjunctionOf(contained \ {True}, intersects \ {True})))

\* phi is DNF(simplify(phi)), a disjunction of the one conjunction: its
\* result True is True, its result False leaves no conjunction.
GetDocRegionRestriction(field, M_feeder, phi, document) ==
  ProcessConjunction(phi, field, M_feeder, document)

\* The EZDocRegion of the prefilter: the item of the k-th of ts has id k.
EZDocRegion(P) ==
  EZInsertAll(
    EZBox(P.document.bbox, 20),
    [k \in DOMAIN P.ts |->
       [id |-> k,
        bbox |-> P.document.entities[ExGet(P.ts[k].extraction, P.field)]]],
    1)

Ids(ts) == {ts[i].id : i \in DOMAIN ts}

\* The ids of M_targets.
RestrictedTargets(P, dnf) ==
  IF dnf = False THEN {}
  ELSE IF dnf = True THEN DOMAIN P.ts
  ELSE IF dnf.superset = None
  THEN {k \in DOMAIN P.ts :
          \A intersection_set \in dnf.intersection_sets :
            k \in Ids(TsIntersecting(EZDocRegion(P), intersection_set.bbox))}
  ELSE {k \in Ids(TsContainedIn(EZDocRegion(P), dnf.superset.bbox)) :
          \A intersection_set \in dnf.intersection_sets :
            IntersectsDocRegion(
              intersection_set,
              DocRegionBuild(P.document,
                             P.document.entities[ExGet(P.ts[k].extraction,
                                                       P.field)]))}

GetFromEZDocRegion(P, M_feeder) ==
  IF P.phi = {} THEN P.ts
  ELSE Bind(RestrictedTargets(
              P, GetDocRegionRestriction(P.field, M_feeder, P.phi, P.document)),
            LAMBDA M_targets :
              SelectSeq(P.ts, LAMBDA M0 :
                \E k \in M_targets : P.ts[k] = M0))

PrefilterGetBest(P, t_feeder) ==
  IF P.best = None THEN <<>> ELSE <<P.best>>
PrefilterGet(P, t_feeder) ==
  IF P.kind = "trivial" THEN P.list
  ELSE (IF P.order = "fifo" THEN GetFromEZDocRegion(P, t_feeder)
        ELSE Reversed(GetFromEZDocRegion(P, t_feeder))) \o P.nones

(***************************************************************************)
(* Smerger.  A _Stream is [peeker, prefilter, inited].  The merger is      *)
(* BoundCombineNode.merger, given by its rules, mass and all_or_nothing;   *)
(* norm_estimator and norm_getter are those of BoundCombineNode.  calls    *)
(* records the tuples handed to the merger and replaced the iterators      *)
(* whose streams initialize replaced by trivial ones (the combine node     *)
(* still holds them as node1 and node2); the Smerger reads neither.        *)
(***************************************************************************)
StreamNew(ts, prefilter, d) ==
  [peeker |-> PeekerNew(ts, d), prefilter |-> prefilter, inited |-> FALSE]

StreamInitialize(S) ==
  [S EXCEPT !.peeker = PeekerInitialize(S.peeker), !.inited = TRUE]

\* _Stream.__next__ that does not add the item to the prefilter.
StreamNextWithoutAdd(S) ==
  Bind(PeekerNext(S.peeker),
       LAMBDA r : [it |-> [S EXCEPT !.peeker = r.it], out |-> r.out])

StreamNext(S) ==
  Bind(PeekerNext(S.peeker),
       LAMBDA r :
         IF r.out.kind = "stop"
         THEN [it |-> [S EXCEPT !.peeker = r.it], out |-> Stop]
         ELSE [it |-> [S EXCEPT !.peeker = r.it,
                                !.prefilter = PrefilterAdd(S.prefilter, r.out)],
               out |-> r.out])

StreamBuildTrivial ==
  StreamInitialize(
    StreamNew(ListIter(<<>>), PrefilterAdd(TrivialPrefilter, SEBuild), 1))

CombineMerger(rules, legal_fields, mass, all_or_nothing) ==
  [rules |-> rules, legal_fields |-> legal_fields, mass |-> mass,
   all_or_nothing |-> all_or_nothing]

\* BoundCombineNode.merger
MergerNoAllOrNothing(mg, Ms) ==
  Bind(Merge(Ms, mg.rules, mg.mass),
       LAMBDA M : IF M = Error THEN Error
                  ELSE IF SEValid(M) THEN M ELSE None)
Merger(mg, Ms) ==
  Bind(Merge(Ms, mg.rules, mg.mass),
       LAMBDA M :
         IF M = Error THEN Error
         ELSE IF /\ mg.all_or_nothing
                 /\ SEFields(M) # mg.legal_fields
                 /\ ~SEIsEmpty(M)
         THEN None
         ELSE IF SEValid(M) THEN M ELSE None)

RECURSIVE SumScoreMass(_)
SumScoreMass(Ms) ==
  IF Ms = <<>> THEN Zero
  ELSE RatAdd(RatMul(Head(Ms).score, Rat(Head(Ms).mass, 1)),
              SumScoreMass(Tail(Ms)))
RECURSIVE SumMass(_)
SumMass(Ms) == IF Ms = <<>> THEN 0 ELSE Head(Ms).mass + SumMass(Tail(Ms))

NormEstimator(Ms) == RatNeg(RatDiv(SumScoreMass(Ms), SumMass(Ms)))
NormGetter(M) == RatNeg(M.score)

SmergerNew(streams, merger, all_or_nothing, d, optimistic) ==
  [streams |-> [i \in DOMAIN streams |->
                  StreamNew(streams[i][1], streams[i][2], d)],
   merger |-> merger, all_or_nothing |-> all_or_nothing,
   optimistic |-> optimistic, inited |-> FALSE, heap |-> <<>>,
   calls |-> <<>>, failed |-> FALSE,
   replaced |-> [i \in DOMAIN streams |-> None]]

\* itertools.product of a sequence of sequences.
RECURSIVE Product(_)
Product(lists) ==
  IF lists = <<>> THEN << <<>> >>
  ELSE LET rest == Product(Tail(lists))
           first == Head(lists)
       IN Chain([i \in DOMAIN first |->
                   [j \in DOMAIN rest |-> <<first[i]>> \o rest[j]]])

RECURSIVE SmergerPushAll(_, _, _)
SmergerPushAll(M, tups, k) ==
  IF k > Len(tups) THEN M
  ELSE Bind(Merger(M.merger, tups[k]),
            LAMBDA new_t :
              IF new_t = Error
              THEN [M EXCEPT !.calls = Append(M.calls, tups[k]),
                             !.failed = TRUE]
              ELSE SmergerPushAll(
                     [M EXCEPT !.calls = Append(M.calls, tups[k]),
                               !.heap = IF new_t # None
                                        THEN HeapPush(M.heap, new_t)
                                        ELSE M.heap],
                     tups, k + 1))

SmergerStep(M, i) ==
  Bind(StreamNext(M.streams[i]),
       LAMBDA r :
         SmergerPushAll(
           [M EXCEPT !.streams[i] = r.it],
           Product([j \in DOMAIN M.streams |->
                      IF j = i THEN <<r.out>>
                      ELSE PrefilterGet(M.streams[j].prefilter, r.out)]),
           1))

\* _optimistic_norm that promises nothing of any stream.
OptimisticNormZero(M, i) == Zero

OptimisticNorm(M, i) ==
  NormEstimator([j \in DOMAIN M.streams |->
                   IF j = i THEN PeekerTop(M.streams[i].peeker)
                   ELSE M.streams[j].prefilter.best])

\* arg_min over the streams in I: the first one whose norm is smallest.
ArgMinStream(M, I) ==
  CHOOSE i \in I :
    \A j \in I : \/ RatLt(OptimisticNorm(M, i), OptimisticNorm(M, j))
                 \/ (RatEq(OptimisticNorm(M, i), OptimisticNorm(M, j))
                     /\ i <= j)

OnlyEmpty(S) ==
  PeekerTop(S.peeker) # None /\ SEIsEmpty(PeekerTop(S.peeker))

RECURSIVE SmergerInitSteps(_, _)
SmergerInitSteps(M, i) ==
  IF i > Len(M.streams) THEN M
  ELSE IF PeekerTop(M.streams[i].peeker) # None
  THEN SmergerInitSteps(SmergerStep(M, i), i + 1)
  ELSE SmergerInitSteps(M, i + 1)

SmergerInitializeNoShortCircuit(M) ==
  SmergerInitSteps(
    [M EXCEPT !.inited = TRUE, !.heap = <<>>,
              !.streams = [i \in DOMAIN M.streams |->
                             StreamInitialize(M.streams[i])]], 1)
SmergerShortCircuit(M) ==
  IF M.all_or_nothing /\ \E i \in DOMAIN M.streams : OnlyEmpty(M.streams[i])
  THEN [M EXCEPT
          !.streams = [i \in DOMAIN M.streams |->
                         IF OnlyEmpty(M.streams[i]) THEN M.streams[i]
                         ELSE StreamBuildTrivial],
          !.replaced = [i \in DOMAIN M.streams |->
                          IF OnlyEmpty(M.streams[i]) THEN None
                          ELSE M.streams[i].peeker.ts]]
  ELSE M

SmergerInitialize(M) ==
  SmergerInitSteps(
    SmergerShortCircuit(
      [M EXCEPT !.inited = TRUE, !.heap = <<>>,
                !.streams = [i \in DOMAIN M.streams |->
                               StreamInitialize(M.streams[i])]]), 1)

HasTop(M) == {i \in DOMAIN M.streams : PeekerTop(M.streams[i].peeker) # None}

\* The first loop of __next__: step while the heap is empty.
SmergerFillOnce(M) ==
  IF M.heap = <<>> /\ HasTop(M) # {} /\ ~M.failed
  THEN SmergerStep(M, ArgMinStream(M, HasTop(M)))
  ELSE M
RECURSIVE SmergerFill(_)
SmergerFill(M) ==
  IF M.heap = <<>> /\ HasTop(M) # {} /\ ~M.failed
  THEN SmergerFill(SmergerStep(M, ArgMinStream(M, HasTop(M))))
  ELSE M

Appealing(M) ==
  {i \in HasTop(M) : RatLt(OptimisticNorm(M, i), NormGetter(M.heap[1]))}

\* The second loop left out.
SmergerOptimismSkipped(M) == M

\* The second loop: step the appealing streams.
RECURSIVE SmergerOptimism(_)
SmergerOptimism(M) ==
  IF Appealing(M) # {} /\ ~M.failed
  THEN SmergerOptimism(SmergerStep(M, ArgMinStream(M, Appealing(M))))
  ELSE M

AllHaveBest(M) == \A i \in DOMAIN M.streams : M.streams[i].prefilter.best # None

\* The state of the Smerger at the point __next__ decides what to return.
SmergerLoops(M) ==
  IF ~AllHaveBest(M) THEN M
  ELSE Bind(SmergerFill(M),
            LAMBDA M2 :
              IF M2.optimistic /\ M2.heap # <<>>
              THEN SmergerOptimism(M2) ELSE M2)

SmergerAdvance(M) ==
  SmergerLoops(IF ~M.inited THEN SmergerInitialize(M) ELSE M)

\* The end of __next__: raise StopIteration or pop the heap.
SmergerFinish(M3) ==
  IF M3.failed THEN [it |-> M3, out |-> Error]
  ELSE IF M3.heap = <<>> THEN [it |-> M3, out |-> Stop]
  ELSE Bind(HeapPop(M3.heap),
            LAMBDA r : [it |-> [M3 EXCEPT !.heap = r.h], out |-> r.out])

SmergerNext(M) == SmergerFinish(SmergerAdvance(M))

(***************************************************************************)
(* Binding a leaf (tree.py).  The document's entities of the leaf's type   *)
(* are 1..n in document order; NoAssignment is the assignment None.        *)
(***************************************************************************)
NoAssignment == 0

CSA(assignment, field_score) ==
  [assignment |-> assignment, field_score |-> field_score]

\* The product of the scores the predicates Ps give the entity.
RECURSIVE PredicateProduct(_, _)
PredicateProduct(Ps, entity) ==
  IF Ps = {} THEN One
  ELSE LET P == CHOOSE X \in Ps : TRUE
       IN RatMul(PredicateScore(P, <<entity>>),
                 PredicateProduct(Ps \ {P}, entity))

LeafScore(assignment, predicates) ==
  IF assignment = NoAssignment THEN Zero
  ELSE PredicateProduct(predicates, assignment)

CSAIsValid(c) ==
  c.assignment = NoAssignment \/ AssignmentIsValid(c.field_score)

\* sorted() that leaves the candidates in the order of the entities.
InsertUnsorted(s, x) == Append(s, x)

\* sorted() is stable: x goes behind the elements that are not worse.
RECURSIVE InsertSorted(_, _)
InsertSorted(s, x) ==
  IF s = <<>> THEN <<x>>
  ELSE IF RatLt(Head(s).field_score, x.field_score) THEN <<x>> \o s
  ELSE <<Head(s)>> \o InsertSorted(Tail(s), x)

RECURSIVE Sorted(_)
Sorted(s) ==
  IF s = <<>> THEN <<>>
  ELSE InsertSorted(Sorted(SubSeq(s, 1, Len(s) - 1)), s[Len(s)])

Assignments(num_entities, predicates) ==
  Sorted(SelectSeq([k \in 1..(num_entities + 1) |->
                      CSA(IF k <= num_entities THEN k ELSE NoAssignment,
                          LeafScore(IF k <= num_entities THEN k
                                    ELSE NoAssignment, predicates))],
                   CSAIsValid))

ScoredExtractionOf(field, c) ==
  SE(IF c.assignment # NoAssignment THEN <<Point(field, c.assignment)>>
     ELSE <<>>,
     ExtractionScore((field :> c.field_score), 1),
     (field :> c.field_score), 1)

(***************************************************************************)
(* Bound nodes (bound_tree.py).  Every node is a record with kind,         *)
(* legal_fields, rules, mass, best_extraction and returned_extractions.    *)
(* The children of a combine node are the iterators of its Smerger's       *)
(* streams, those of a pick-best node the iterators of its PeekingHeap.    *)
(* public_extractions records what a pattern node returned; the code does  *)
(* not keep it.                                                            *)
(***************************************************************************)
BoundNode(kind, legal_fields, rules, mass) ==
  [kind |-> kind, legal_fields |-> legal_fields, rules |-> rules,
   mass |-> mass, best_extraction |-> None, returned_extractions |-> <<>>]

\* _yielding that also replaces the best extraction by one that ties with it.
YieldingLatestBest(n, extraction) ==
  [n EXCEPT !.best_extraction =
              IF n.best_extraction = None \/ ~Lt(n.best_extraction, extraction)
              THEN extraction ELSE n.best_extraction,
            !.returned_extractions = Append(n.returned_extractions, extraction)]

Yielding(n, extraction) ==
  [n EXCEPT !.best_extraction =
              IF n.best_extraction = None \/ Lt(extraction, n.best_extraction)
              THEN extraction ELSE n.best_extraction,
            !.returned_extractions = Append(n.returned_extractions, extraction)]

BoundEmptyNode == BoundNode("empty", {}, {}, 0)

BoundLeafNode(field, rules, extractions) ==
  [f \in {"field", "extractions", "i"} |->
     CASE f = "field" -> field
       [] f = "extractions" -> extractions
       [] f = "i" -> 0]
    @@ BoundNode("leaf", {field}, rules, 1)

LeafBoundTo(field, rules, num_entities) ==
  BoundLeafNode(
    field, rules,
    [k \in DOMAIN Assignments(num_entities,
                              {R.predicate : R \in {Q \in rules : Q.type = "atom"}}) |->
       ScoredExtractionOf(
         field,
         Assignments(num_entities,
                     {R.predicate : R \in {Q \in rules : Q.type = "atom"}})[k])])

RECURSIVE LeafNext(_)
LeafNext(n) ==
  IF n.i >= Len(n.extractions) THEN [it |-> n, out |-> Stop]
  ELSE IF SEValid(Merge(<<n.extractions[n.i + 1]>>,
                        {R \in n.rules : R.type # "atom"}, n.mass))
  THEN [it |-> Yielding([n EXCEPT !.i = n.i + 1], n.extractions[n.i + 1]),
        out |-> n.extractions[n.i + 1]]
  ELSE LeafNext([n EXCEPT !.i = n.i + 1])

\* A field is private when its name starts with an underscore.
PrivateFields == {"_p"}
IsPublic(F) == F # "" /\ F \notin PrivateFields

BoundPatternNode(child, rules) ==
  [f \in {"child", "public_extractions"} |->
     IF f = "child" THEN child ELSE <<>>]
    @@ BoundNode("pattern", {F \in child.legal_fields : IsPublic(F)}, rules,
                 Cardinality({F \in child.legal_fields : IsPublic(F)}))

PublicExtractionKeepingScores(n, S) ==
  [S EXCEPT !.extraction =
              SelectSeq(S.extraction, LAMBDA A : A.field \in n.legal_fields)]
PublicExtraction(n, S) ==
  [S EXCEPT !.extraction =
              SelectSeq(S.extraction, LAMBDA A : A.field \in n.legal_fields),
            !.field_scores =
              [F \in DOMAIN S.field_scores \cap n.legal_fields |->
                 S.field_scores[F]]]

PatternNext(n) ==
  Bind(IterNext(n.child),
       LAMBDA r :
         IF r.out.kind # "se"
         THEN [it |-> [n EXCEPT !.child = r.it], out |-> r.out]
         ELSE [it |-> [Yielding(n, r.out) EXCEPT
                         !.child = r.it,
                         !.public_extractions =
                           Append(n.public_extractions,
                                  PublicExtraction(n, r.out))],
               out |-> PublicExtraction(n, r.out)])

BoundMergeNode(child, rules) ==
  ("child" :> child) @@ BoundNode("merge", child.legal_fields, rules, child.mass)

MergeNext(n) ==
  Bind(IterNext(n.child),
       LAMBDA r :
         IF r.out.kind # "se"
         THEN [it |-> [n EXCEPT !.child = r.it], out |-> r.out]
         ELSE [it |-> [Yielding(n, r.out) EXCEPT !.child = r.it],
               out |-> r.out])

\* The order of the fields, for the choice of a prefilter's field.
FieldOrder == <<"_p", "q", "r">>
FieldIndex(F) == CHOOSE i \in DOMAIN FieldOrder : FieldOrder[i] = F

\* decidable_atoms and Phi of BoundCombineNode.__init__.
DecidableAtoms(rules, legal_fields) ==
  {A \in UNION {IF R.type = "atom" THEN {R} ELSE Range(R.rules) : R \in rules} :
     Range(A.fields) \subseteq legal_fields}

NodePhi(rules, legal_fields) ==
  UNION {PredicatePhi(A.predicate, A.fields) :
           A \in DecidableAtoms(rules, legal_fields)}

\* self.document: the document the atoms of the rules are bound to, which
\* only the regions of a phi that is not True read.
NodeDocument(rules, legal_fields) ==
  IF \E A \in DecidableAtoms(rules, legal_fields) :
       A.predicate.name = "are_arranged"
  THEN (CHOOSE A \in DecidableAtoms(rules, legal_fields) :
          A.predicate.name = "are_arranged").predicate.document
  ELSE None

\* arg_max takes the first of the fields of the most restrictive power that
\* the frozenset iterates.
PrefilterField(fields, order) ==
  CHOOSE F \in fields :
    \A G \in fields : IF order = "fifo" THEN FieldIndex(F) <= FieldIndex(G)
                                         ELSE FieldIndex(F) >= FieldIndex(G)

PrefilterData(N_target, N_feeder, Phi, order) ==
  Bind(PrefilterField(
         {I0 \in N_target.legal_fields :
            \A I1 \in N_target.legal_fields :
              RestrictivePower(Weaken(Phi, I1, N_feeder.legal_fields), I1,
                               N_feeder.legal_fields)
                <= RestrictivePower(Weaken(Phi, I0, N_feeder.legal_fields), I0,
                                    N_feeder.legal_fields)},
         order),
       LAMBDA I : <<I, Weaken(Phi, I, N_feeder.legal_fields)>>)

Prefilter(N_target, N_feeder, rules, order) ==
  IF N_target.legal_fields # {} /\ N_feeder.legal_fields # {}
  THEN DocRegionPrefilter(
         PrefilterData(
           N_target, N_feeder,
           NodePhi(rules, N_target.legal_fields \cup N_feeder.legal_fields),
           order)[1],
         PrefilterData(
           N_target, N_feeder,
           NodePhi(rules, N_target.legal_fields \cup N_feeder.legal_fields),
           order)[2],
         NodeDocument(rules, N_target.legal_fields \cup N_feeder.legal_fields),
         order)
  ELSE TrivialPrefilter

BoundCombineNode(node1, node2, rules, all_or_nothing, peek_distance, order) ==
  ("smerger" :>
     SmergerNew(<< <<node1, Prefilter(node1, node2, rules, order)>>,
                   <<node2, Prefilter(node2, node1, rules, order)>> >>,
                CombineMerger(rules, node1.legal_fields \cup node2.legal_fields,
                              node1.mass + node2.mass, all_or_nothing),
                all_or_nothing, peek_distance, TRUE))
    @@ BoundNode("combine", node1.legal_fields \cup node2.legal_fields, rules,
                 node1.mass + node2.mass)

CombineNext(n) ==
  Bind(SmergerNext(n.smerger),
       LAMBDA r :
         IF r.out.kind # "se"
         THEN [it |-> [n EXCEPT !.smerger = r.it], out |-> r.out]
         ELSE [it |-> [Yielding(n, r.out) EXCEPT !.smerger = r.it],
               out |-> r.out])

RECURSIVE MaxMass(_)
MaxMass(nodes) ==
  IF Len(nodes) = 1 THEN nodes[1].mass
  ELSE IF nodes[1].mass >= MaxMass(Tail(nodes)) THEN nodes[1].mass
  ELSE MaxMass(Tail(nodes))

BoundPickBestNode(child_nodes, rules, peek_distance) ==
  ("heap" :> PeekingHeapNew(child_nodes, MassNormalizer(MaxMass(child_nodes)),
                            peek_distance))
    @@ BoundNode("pick_best",
                 UNION {child_nodes[i].legal_fields : i \in DOMAIN child_nodes},
                 rules, MaxMass(child_nodes))

RECURSIVE PickBestNext(_)
PickBestMerged(n, M) ==
  IF SEValid(M) THEN [it |-> Yielding(n, M), out |-> M] ELSE PickBestNext(n)

PickBestNext(n) ==
  Bind(PeekingHeapNext(n.heap),
       LAMBDA r :
         IF r.out.kind # "se"
         THEN [it |-> [n EXCEPT !.heap = r.it], out |-> r.out]
         ELSE PickBestMerged([n EXCEPT !.heap = r.it],
                             Merge(<<r.out>>, n.rules, n.mass)))

(***************************************************************************)
(* IterNext                                                                *)
(***************************************************************************)
IterNext(it) ==
  CASE it.kind = "list" ->
         IF it.items = <<>>
         THEN [it |-> it, out |-> Stop]
         ELSE [it |-> [it EXCEPT !.items = Tail(it.items)],
               out |-> Head(it.items)]
    [] it.kind = "empty" -> [it |-> it, out |-> Stop]
    [] it.kind = "leaf" -> LeafNext(it)
    [] it.kind = "pattern" -> PatternNext(it)
    [] it.kind = "merge" -> MergeNext(it)
    [] it.kind = "combine" -> CombineNext(it)
    [] it.kind = "pick_best" -> PickBestNext(it)

\* child_nodes of a bound node, as they are now.
ChildNodes(n) ==
  CASE n.kind \in {"pattern", "merge"} -> <<n.child>>
    [] n.kind = "combine" ->
         [i \in DOMAIN n.smerger.streams |->
            IF n.smerger.replaced[i] # None THEN n.smerger.replaced[i]
            ELSE n.smerger.streams[i].peeker.ts]
    [] n.kind = "pick_best" ->
         IF n.heap.inited
         THEN [i \in DOMAIN n.heap.peekers |-> n.heap.peekers[i].ts]
         ELSE n.heap.tss
    [] OTHER -> <<>>

(***************************************************************************)
(* State                                                                   *)
(***************************************************************************)
VARIABLES
  pkIn,     \* the sequence a Peeker is built over
  pk,       \* the Peeker
  pkOut,    \* what its __next__ returned so far, in order
  pkStop,   \* its __next__ raised StopIteration
  phIn,     \* the sequences a PeekingHeap is built over
  ph,       \* the PeekingHeap
  phOut,    \* what its __next__ returned so far, in order
  phStop,   \* its __next__ raised StopIteration
  smIn,     \* [lists, d]: the sequences a Smerger is built over, peek_distance
  sm,       \* the Smerger
  smOut,    \* what its __next__ returned so far, in order
  smStop,   \* its __next__ raised StopIteration
  smAt,     \* the Smerger as it was when the last __next__ chose its result
  tr,       \* the root of a bound tree
  trOut,    \* what its __next__ returned so far, in order
  trStop,   \* its __next__ raised StopIteration
  emIn,     \* the extractions handed to Extraction.merge
  emOut,    \* what Extraction.merge did with them
  emDone,   \* Extraction.merge was called
  rnConfig, \* the Config run_model is called with
  rnPc,     \* where run_model is: "pumping", "pumped", "returned", "raised"
  rnClock,  \* the seconds that passed since run_model was called
  rnExpired,\* config.timeout seconds passed while run_model was pumping
  rnResults, \* what run_model returned, None before
  fnIn, \* the arguments of a function of tree.py that is called once
  fnOut, \* what the call returned or raised, None before the call
  ez, \* the EZBox, a tree of [bbox, straddlers, child_nodes]
  ezItems, \* the items inserted into ez, in order
  im, \* the Impingement: [base_interval, subdivisions]
  imIn, \* the (interval, opacity) pairs incorporated, in order
  pfTree, \* the tree of tr with TrivialPrefilters in its Smerger
  pfOut, \* what next(pfTree) returned so far
  pfStop \* next(pfTree) raised StopIteration

pkVars == <<pkIn, pk, pkOut, pkStop>>
phVars == <<phIn, ph, phOut, phStop>>
smVars == <<smIn, sm, smOut, smStop, smAt>>
trVars == <<tr, trOut, trStop>>
emVars == <<emIn, emOut, emDone>>
rnVars == <<rnConfig, rnPc, rnClock, rnExpired, rnResults>>
fnVars == <<fnIn, fnOut>>
ezVars == <<ez, ezItems>>
imVars == <<im, imIn>>
pfVars == <<pfTree, pfOut, pfStop>>
vars == <<pkVars, phVars, smVars, trVars, emVars, rnVars, fnVars, ezVars, imVars, pfVars>>

RECURSIVE SeqsUpTo(_, _)
SeqsUpTo(S, n) ==
  IF n = 0 THEN {<<>>}
  ELSE LET R == SeqsUpTo(S, n - 1)
       IN R \cup {Append(s, x) : s \in {r \in R : Len(r) = n - 1}, x \in S}

\* Tag each value with the place it stands at.
Tagged(s, src) == [i \in 1..Len(s) |-> T(s[i], <<src, i>>)]

PkIdle ==
  /\ pkIn = <<>>
  /\ pk = PeekerNew(ListIter(<<>>), 0)
  /\ pkOut = <<>>
  /\ pkStop = FALSE

PhIdle ==
  /\ phIn = <<>>
  /\ ph = PeekingHeapNew(<<>>, IdNormalizer, 1)
  /\ phOut = <<>>
  /\ phStop = FALSE

SmIdle ==
  /\ smIn = [lists |-> <<>>, d |-> 1]
  /\ sm = SmergerNew(<<>>, CombineMerger({}, {}, 0, FALSE), FALSE, 1, FALSE)
  /\ smOut = <<>>
  /\ smStop = FALSE
  /\ smAt = None

TrIdle ==
  /\ tr = BoundEmptyNode
  /\ trOut = <<>>
  /\ trStop = FALSE

EmIdle ==
  /\ emIn = <<>>
  /\ emOut = None
  /\ emDone = FALSE

RnIdle ==
  /\ rnConfig = None
  /\ rnPc = "idle"
  /\ rnClock = 0
  /\ rnExpired = FALSE
  /\ rnResults = None

FnIdle ==
  /\ fnIn = None
  /\ fnOut = None

EzIdle ==
  /\ ez = None
  /\ ezItems = <<>>

ImIdle ==
  /\ im = None
  /\ imIn = <<>>

PfIdle ==
  /\ pfTree = None
  /\ pfOut = <<>>
  /\ pfStop = FALSE

(***************************************************************************)
(* A Peeker over a list, pumped until it stops (test_peeker.py).           *)
(***************************************************************************)
InitPeeker ==
  /\ \E s \in SeqsUpTo(0..MaxVal, MaxLen), d \in 0..MaxPeek :
       /\ pkIn = Tagged(s, 0)
       /\ pk = PeekerNew(ListIter(Tagged(s, 0)), d)
  /\ pkOut = <<>>
  /\ pkStop = FALSE
  /\ PhIdle
  /\ SmIdle
  /\ TrIdle
  /\ EmIdle
  /\ RnIdle
  /\ FnIdle
  /\ EzIdle
  /\ ImIdle
  /\ PfIdle

PeekerCall ==
  /\ ~pkStop
  /\ \E r \in {PeekerNext(pk)} :
       /\ pk' = r.it
       /\ pkStop' = (r.out.kind = "stop")
       /\ pkOut' = IF r.out.kind = "stop" THEN pkOut ELSE Append(pkOut, r.out)
  /\ UNCHANGED <<pkIn, phVars, smVars, trVars, emVars, rnVars, fnVars, ezVars, imVars, pfVars>>

NextPeeker == PeekerCall

SpecPeeker == InitPeeker /\ [][NextPeeker]_vars

(***************************************************************************)
(* A PeekingHeap over lists, pumped until it stops                         *)
(* (test_peeking_heap.py).                                                 *)
(***************************************************************************)
PhInputs ==
  LET S == SeqsUpTo(0..PhMaxVal, PhMaxLen)
      S1 == SeqsUpTo(0..PhMaxVal, 1)
  IN {<<>>} \cup {<<a>> : a \in S} \cup {<<a, b>> : a \in S, b \in S}
       \cup {<<a, b, c>> : a \in S, b \in S, c \in S1}

InitPeekingHeap ==
  /\ \E tss \in PhInputs, d \in 1..MaxPeek :
       /\ phIn = [i \in 1..Len(tss) |-> Tagged(tss[i], i)]
       /\ ph = PeekingHeapNew([i \in 1..Len(tss) |-> ListIter(Tagged(tss[i], i))],
                              IdNormalizer, d)
  /\ phOut = <<>>
  /\ phStop = FALSE
  /\ PkIdle
  /\ SmIdle
  /\ TrIdle
  /\ EmIdle
  /\ RnIdle
  /\ FnIdle
  /\ EzIdle
  /\ ImIdle
  /\ PfIdle

PeekingHeapCall ==
  /\ ~phStop
  /\ \E r \in {PeekingHeapNext(ph)} :
       /\ ph' = r.it
       /\ phStop' = (r.out.kind = "stop")
       /\ phOut' = IF r.out.kind = "stop" THEN phOut ELSE Append(phOut, r.out)
  /\ UNCHANGED <<phIn, pkVars, smVars, trVars, emVars, rnVars, fnVars, ezVars, imVars, pfVars>>

NextPeekingHeap == PeekingHeapCall

SpecPeekingHeap == InitPeekingHeap /\ [][NextPeekingHeap]_vars

(***************************************************************************)
(* A Smerger over two lists of ScoredExtractions with trivial prefilters,  *)
(* pumped until it stops.  Stream i assigns field fi; its k-th item        *)
(* assigns entity k.  A stream that has an empty extraction has it last,   *)
(* with score 0, as ScoredExtraction.build and scoring.merge score it.     *)
(* The merger scores and checks validity; the all_or_nothing that varies   *)
(* is the Smerger's own.                                                   *)
(***************************************************************************)
SmScores == {Rat(1, 2), One}
SmFields == <<"f1", "f2">>

SmItem(f, k, score) == SE(<<Point(f, k)>>, score, (f :> score), 1)
SmEmptyItem(f) == SE(<<>>, Zero, (f :> Zero), 1)
SmList(f, scores, withEmpty) ==
  [k \in 1..Len(scores) |-> SmItem(f, k, scores[k])]
    \o (IF withEmpty THEN <<SmEmptyItem(f)>> ELSE <<>>)

SmRules ==
  { {},
    {Atom(SmFields, AreDisjoint)},
    {Atom(SmFields, Scores(Zero))},
    {Atom(SmFields, Scores(Rat(1, 2)))} }

InitSmerger ==
  /\ \E s1 \in SeqsUpTo(SmScores, SmMaxLen),
        s2 \in SeqsUpTo(SmScores, SmMaxLen - 1), withEmpty \in BOOLEAN,
        d \in 1..MaxPeek, optimistic \in BOOLEAN, all_or_nothing \in BOOLEAN,
        rules \in SmRules :
       LET l1 == SmList("f1", s1, withEmpty)
           l2 == SmList("f2", s2, withEmpty)
       IN /\ smIn = [lists |-> <<l1, l2>>, d |-> d]
          /\ sm = SmergerNew(<< <<ListIter(l1), TrivialPrefilter>>,
                                <<ListIter(l2), TrivialPrefilter>> >>,
                             CombineMerger(rules, Range(SmFields), 2, FALSE),
                             all_or_nothing, d, optimistic)
  /\ smOut = <<>>
  /\ smStop = FALSE
  /\ smAt = None
  /\ PkIdle
  /\ PhIdle
  /\ TrIdle
  /\ EmIdle
  /\ RnIdle
  /\ FnIdle
  /\ EzIdle
  /\ ImIdle
  /\ PfIdle

SmergerCall ==
  /\ ~smStop
  /\ \E M3 \in {SmergerAdvance(sm)} :
       \E r \in {SmergerFinish(M3)} :
         /\ sm' = r.it
         /\ smAt' = M3
         /\ smStop' = (r.out.kind = "stop")
         /\ smOut' = IF r.out.kind = "stop" THEN smOut
                     ELSE Append(smOut, r.out)
  /\ UNCHANGED <<smIn, pkVars, phVars, trVars, emVars, rnVars, fnVars, ezVars, imVars, pfVars>>

NextSmerger == SmergerCall

SpecSmerger == InitSmerger /\ [][NextSmerger]_vars

(***************************************************************************)
(* A bound tree, pumped at its root until it stops.  The document has up   *)
(* to TrNumEntities one-word entities of one type; a leaf's rule scores    *)
(* each entity by a table.  The trees are those bound_to builds: the       *)
(* EmptyNode that combine() of no nodes is; a leaf; a                      *)
(* CombineNode of two leaves; the MergeNode, the PatternNode and the       *)
(* PickBestNodes over them; a CombineNode of a pattern and a leaf.  order  *)
(* is the order in which the sets of the code iterate.                     *)
(***************************************************************************)
TrNumEntities == 2

\* The scores a leaf's rule gives the entities of a document that has
\* Len(table) of them, none up to TrNumEntities.
TrTables ==
  UNION { { [e \in 1..n |-> One],
            [e \in 1..n |-> IF e = 1 THEN Rat(1, 2) ELSE One],
            [e \in 1..n |-> IF e = 1 THEN Rat(1, 10) ELSE Rat(1, 2)],
            [e \in 1..n |-> IF e = n THEN Rat(1, 5) ELSE One] } :
          n \in 0..TrNumEntities }

TrHighTables == {t \in TrTables : \A e \in DOMAIN t : ~RatLt(t[e], Rat(1, 2))}

TrLeaf(field, table) ==
  LeafBoundTo(field, {Atom(<<field>>, ScoresBy(table))}, Len(table))

\* A leaf with a rule that is not an atom.
TrLeafWithConnective(field, table) ==
  LeafBoundTo(field,
              {Atom(<<field>>, ScoresBy(table)),
               Connective("conjunction",
                          <<Atom(<<field>>, Scores(Rat(1, 10)))>>)},
              Len(table))

\* The rules combine() adds: fields of different nodes take disjoint
\* entities.
CombineRules(node1, node2) ==
  {Atom(<<field1, field2>>, AreDisjoint) :
     field1 \in node1.legal_fields, field2 \in node2.legal_fields}

\* combine(node1, node2, all_or_nothing).bound_to(document)
Combine(node1, node2, all_or_nothing, order) ==
  BoundCombineNode(node1, node2, CombineRules(node1, node2), all_or_nothing,
                   2, order)

\* The rules a CombineNode over fields f1 and f2 is given by hand.
TrExtraRules(f1, f2) ==
  { {},
    {Atom(<<f2>>, Scores(Rat(1, 2)))},
    {Atom(<<f1, f2>>, Scores(Rat(1, 5)))} }

\* PatternNode({f1, f2}, rules).bound_to(document): order_tree gives the
\* leaves their own rules and the root the rules that span both.
PatternBoundTo(leaf1, leaf2, spanning_rules, order) ==
  BoundPatternNode(
    BoundCombineNode(leaf1, leaf2,
                     CombineRules(leaf1, leaf2) \cup spanning_rules,
                     TRUE, 2, order),
    leaf1.rules \cup leaf2.rules \cup spanning_rules)

\* MergeNode((node1, node2)).bound_to(document)
MergeBoundTo(node1, node2, order) ==
  BoundMergeNode(Combine(node1, node2, FALSE, order), {})

\* PickBestNode(children, rules).bound_to(document)
PickBestBoundTo(child_nodes, rules) == BoundPickBestNode(child_nodes, rules, 1)

TrPickBestRules ==
  { {},
    {Atom(<<"q">>, Scores(Rat(1, 5)))},
    {Atom(<<"_p", "q">>, Scores(Rat(1, 5)))} }

InitTree ==
  /\ \E order \in {"fifo", "lifo"}, t1 \in TrTables, t2 \in TrTables :
       /\ Len(t1) = Len(t2)
       /\ \/ tr = BoundEmptyNode
          \/ tr = TrLeaf("q", t2)
          \/ tr = TrLeafWithConnective("q", t2)
          \/ /\ t1 \in TrHighTables
             /\ \E all_or_nothing \in BOOLEAN, d \in 1..MaxPeek,
                   rules \in TrExtraRules("_p", "q"), disjoint \in BOOLEAN :
                  tr = BoundCombineNode(
                         TrLeaf("_p", t1), TrLeaf("q", t2),
                         rules \cup (IF disjoint
                                     THEN CombineRules(TrLeaf("_p", t1),
                                                       TrLeaf("q", t2))
                                     ELSE {}),
                         all_or_nothing, d, order)
          \/ /\ t1 \in TrHighTables
             /\ tr = MergeBoundTo(TrLeaf("q", t1), TrLeaf("r", t2), order)
          \/ /\ t1 \in TrHighTables
             /\ \E spanning_rules \in {{}, {Atom(<<"_p", "q">>, Scores(Rat(1, 5)))}} :
                  \/ tr = PatternBoundTo(TrLeaf("_p", t1), TrLeaf("q", t2),
                                         spanning_rules, order)
                  \/ tr = PatternBoundTo(TrLeaf("q", t2), TrLeaf("_p", t1),
                                         spanning_rules, order)
          \/ tr = PickBestBoundTo(<<TrLeaf("q", t1), TrLeaf("q", t2),
                                    TrLeaf("q", t1), TrLeaf("q", t2)>>, {})
          \/ \E rules \in TrPickBestRules :
               \/ tr = PickBestBoundTo(<<TrLeaf("q", t1), TrLeaf("q", t2)>>, rules)
               \/ /\ t1 \in TrHighTables
                  /\ \E spanning_rules \in TrExtraRules("_p", "q") :
                       tr = PickBestBoundTo(
                              <<TrLeaf("q", t2),
                                BoundCombineNode(
                                  TrLeaf("_p", t1), TrLeaf("q", t2),
                                  spanning_rules
                                    \cup CombineRules(TrLeaf("_p", t1),
                                                      TrLeaf("q", t2)),
                                  FALSE, 2, order)>>,
                              rules)
          \/ /\ t1 \in TrHighTables
             /\ t2 \in TrHighTables
             /\ \E all_or_nothing \in BOOLEAN :
                  tr = Combine(PatternBoundTo(TrLeaf("_p", t1), TrLeaf("q", t2),
                                              {}, order),
                               TrLeaf("r", t2), all_or_nothing, order)
  /\ trOut = <<>>
  /\ trStop = FALSE
  /\ PkIdle
  /\ PhIdle
  /\ SmIdle
  /\ EmIdle
  /\ RnIdle
  /\ FnIdle
  /\ EzIdle
  /\ ImIdle
  /\ PfIdle

\* next(root)
TreeCall ==
  /\ ~trStop
  /\ \E r \in {IterNext(tr)} :
       /\ tr' = r.it
       /\ trStop' = (r.out.kind = "stop")
       /\ trOut' = IF r.out.kind = "stop" THEN trOut ELSE Append(trOut, r.out)
  /\ UNCHANGED <<pkVars, phVars, smVars, emVars, rnVars, fnVars, ezVars, imVars, pfVars>>

NextTree == TreeCall

SpecTree == InitTree /\ [][NextTree]_vars

(***************************************************************************)
(* Extraction.merge, called once on up to EmMaxInputs extractions over     *)
(* the fields a, b and the entities 1, 2.  No input has a field twice: an  *)
(* extraction is a leaf's one point, a merge of extractions with no field  *)
(* in common, or a part of such a one.                                     *)
(***************************************************************************)
EmMaxInputs == 3

EmPoints == {Point(f, e) : f \in {"a", "b"}, e \in 1..2}

EmExtractions ==
  {ex \in SeqsUpTo(EmPoints, 2) :
     \A i, j \in DOMAIN ex : i # j => ex[i].field # ex[j].field}

InitExtractionMerge ==
  /\ emIn \in SeqsUpTo(EmExtractions, EmMaxInputs)
  /\ emOut = None
  /\ emDone = FALSE
  /\ PkIdle
  /\ PhIdle
  /\ SmIdle
  /\ TrIdle
  /\ RnIdle
  /\ FnIdle
  /\ EzIdle
  /\ ImIdle
  /\ PfIdle

ExtractionMergeCall ==
  /\ ~emDone
  /\ emOut' = ExtractionMerge(emIn)
  /\ emDone' = TRUE
  /\ UNCHANGED <<emIn, pkVars, phVars, smVars, trVars, rnVars, fnVars, ezVars, imVars, pfVars>>

NextExtractionMerge == ExtractionMergeCall

SpecExtractionMerge == InitExtractionMerge /\ [][NextExtractionMerge]_vars



(***************************************************************************)
(* run_model (run.py) on a bound tree, with a Config: the root is pumped   *)
(* until done() or StopIteration, then generate_results (results.py)       *)
(* builds the Results.  tr is bound_root, trOut what next(bound_root)      *)
(* returned, trStop that it raised StopIteration.  A tick is a second      *)
(* passing while the root is pumped.  The trees are those of the tree      *)
(* specification, rules already at the nodes that decide them, and a leaf  *)
(* over a document of RnBigDocument entities.                              *)
(***************************************************************************)
RnMaxSamples == 2
RnMaxClock == 1
RnBigDocument == 21

Config(num_samples, timeout) == [num_samples |-> num_samples, timeout |-> timeout]

\* done() of run_with_runtime_tracker.
Done(config, bound_root) ==
  IF config.num_samples < 0 THEN FALSE
  ELSE Len(bound_root.returned_extractions) = config.num_samples

\* timeout(timeout, f) interrupts f with TimeoutError after timeout seconds:
\* the lines that install the handler and set the alarm are commented out,
\* so f is never interrupted.
TimeoutInterrupts(timeout, clock) == FALSE

\* sorted() by ScoredExtraction.__lt__, highest score first; it is stable.
RECURSIVE InsertByScore(_, _)
InsertByScore(s, x) ==
  IF s = <<>> THEN <<x>>
  ELSE IF ItemLt(x, Head(s)) THEN <<x>> \o s
  ELSE <<Head(s)>> \o InsertByScore(Tail(s), x)

RECURSIVE SortedByScore(_)
SortedByScore(s) ==
  IF s = <<>> THEN <<>>
  ELSE InsertByScore(SortedByScore(SubSeq(s, 1, Len(s) - 1)), s[Len(s)])

\* generate_results_tree: Error is its AssertionError.
RECURSIVE GenerateResultsTree(_)
GenerateResultsTree(bound_node) ==
  IF bound_node.best_extraction = None THEN Error
  ELSE Bind(IF bound_node.kind = "pattern" THEN <<>>
            ELSE [i \in DOMAIN ChildNodes(bound_node) |->
                    GenerateResultsTree(ChildNodes(bound_node)[i])],
            LAMBDA child_nodes :
              IF \E i \in DOMAIN child_nodes : child_nodes[i] = Error
              THEN Error
              ELSE [kind |-> "results_node",
                    top_20_extractions |->
                      SortedByScore(bound_node.returned_extractions),
                    top_score |-> bound_node.best_extraction.score,
                    child_nodes |-> child_nodes,
                    fields |-> bound_node.legal_fields])

\* validate_results_node passes.
RECURSIVE ValidateResultsNode(_)
ValidateResultsNode(results_node) ==
  /\ results_node.top_20_extractions # <<>>
  /\ RatEq(results_node.top_20_extractions[1].score, results_node.top_score)
  /\ \A i \in DOMAIN results_node.child_nodes :
       ValidateResultsNode(results_node.child_nodes[i])

\* generate_results: the Results, or Error when an assertion or the
\* validation fails.
GenerateResults(root, timed_out) ==
  IF root = None
  THEN [kind |-> "results", root |-> None, timed_out |-> timed_out]
  ELSE Bind(GenerateResultsTree(root),
            LAMBDA results_tree :
              IF results_tree = Error THEN Error
              ELSE IF ~ValidateResultsNode(results_tree) THEN Error
              ELSE [kind |-> "results", root |-> results_tree,
                    timed_out |-> timed_out])

InitRun ==
  /\ tr \in {BoundEmptyNode, TrLeaf("q", [e \in 1..RnBigDocument |-> One])}
            \cup {TrLeaf("q", t) : t \in TrTables}
            \cup UNION { { Combine(TrLeaf("_p", t1), TrLeaf("q", t2), TRUE,
                                   "fifo"),
                           PatternBoundTo(TrLeaf("_p", t1), TrLeaf("q", t2),
                                          {}, "fifo"),
                           PickBestBoundTo(<<TrLeaf("q", t1), TrLeaf("q", t2)>>,
                                           {}) } :
                         t1 \in {t \in TrHighTables : Len(t) = TrNumEntities},
                         t2 \in {t \in TrTables : Len(t) = TrNumEntities} }
  /\ trOut = <<>>
  /\ trStop = FALSE
  /\ \E num_samples \in (-1)..RnMaxSamples, timeout \in {-1, RnMaxClock} :
       rnConfig = Config(num_samples, timeout)
  /\ rnPc = "pumping"
  /\ rnClock = 0
  /\ rnExpired = FALSE
  /\ rnResults = None
  /\ PkIdle
  /\ PhIdle
  /\ SmIdle
  /\ EmIdle
  /\ FnIdle
  /\ EzIdle
  /\ ImIdle
  /\ PfIdle

\* while not done(): next(bound_root), one round.  StopIteration ends the
\* loop; another exception leaves run_model.
RunNext ==
  /\ rnPc = "pumping"
  /\ ~Done(rnConfig, tr)
  /\ \E r \in {IterNext(tr)} :
       /\ tr' = r.it
       /\ trStop' = (r.out.kind = "stop")
       /\ trOut' = IF r.out.kind = "se" THEN Append(trOut, r.out) ELSE trOut
       /\ rnPc' = CASE r.out.kind = "se" -> "pumping"
                    [] r.out.kind = "stop" -> "pumped"
                    [] OTHER -> "raised"
  /\ UNCHANGED <<rnConfig, rnClock, rnExpired, rnResults>>
  /\ UNCHANGED <<pkVars, phVars, smVars, emVars, fnVars, ezVars, imVars, pfVars>>

\* done() holds: the loop ends.
RunLoopExit ==
  /\ rnPc = "pumping"
  /\ Done(rnConfig, tr)
  /\ rnPc' = "pumped"
  /\ UNCHANGED <<rnConfig, rnClock, rnExpired, rnResults>>
  /\ UNCHANGED <<pkVars, phVars, smVars, trVars, emVars, fnVars, ezVars, imVars, pfVars>>

\* After the loop: the assertion on best_extraction, then generate_results
\* with timed_out = False.
RunReturn ==
  /\ rnPc = "pumped"
  /\ IF tr.best_extraction = None
     THEN /\ rnPc' = "raised"
          /\ rnResults' = rnResults
     ELSE \E results \in {GenerateResults(tr, FALSE)} :
            IF results = Error
            THEN /\ rnPc' = "raised"
                 /\ rnResults' = rnResults
            ELSE /\ rnPc' = "returned"
                 /\ rnResults' = results
  /\ UNCHANGED <<rnConfig, rnClock, rnExpired>>
  /\ UNCHANGED <<pkVars, phVars, smVars, trVars, emVars, fnVars, ezVars, imVars, pfVars>>

\* A second passes while the root is pumped.  Were f interrupted, run_model
\* would catch the TimeoutError with bound_node still None.
RunTick ==
  /\ rnPc = "pumping"
  /\ rnClock < RnMaxClock
  /\ rnClock' = rnClock + 1
  /\ rnExpired' = (rnExpired \/ (rnConfig.timeout # -1
                                  /\ rnClock + 1 >= rnConfig.timeout))
  /\ IF rnConfig.timeout # -1
          /\ TimeoutInterrupts(rnConfig.timeout, rnClock + 1)
     THEN /\ rnPc' = "returned"
          /\ rnResults' = GenerateResults(None, TRUE)
     ELSE UNCHANGED <<rnPc, rnResults>>
  /\ UNCHANGED rnConfig
  /\ UNCHANGED <<pkVars, phVars, smVars, trVars, emVars, fnVars, ezVars, imVars, pfVars>>

NextRun == RunNext \/ RunLoopExit \/ RunReturn \/ RunTick

SpecRun == InitRun /\ [][NextRun]_vars

(***************************************************************************)
(* Extraction trees before they are bound to a document (tree.py).  A node *)
(* is [kind |-> "empty"], a leaf [kind |-> "leaf", field, rules], a merge  *)
(* node [kind |-> "merge", children, rules] or a combine node              *)
(* [kind |-> "combine", node1, node2, rules, peek_distance]; rules is a    *)
(* tuple.  A call of a function of tree.py is fnIn -> fnOut.               *)
(***************************************************************************)
EmptyNode == [kind |-> "empty", rules |-> <<>>]
LeafNode(field, rules) == [kind |-> "leaf", field |-> field, rules |-> rules]
MergeNode(children, rules) ==
  [kind |-> "merge", children |-> children, rules |-> rules]
CombineNode(node1, node2, rules, peek_distance) ==
  [kind |-> "combine", node1 |-> node1, node2 |-> node2, rules |-> rules,
   peek_distance |-> peek_distance]

RECURSIVE LegalFields(_)
LegalFields(node) ==
  CASE node.kind = "empty" -> {}
    [] node.kind = "leaf" -> {node.field}
    [] node.kind = "merge" ->
         UNION {LegalFields(node.children[i]) : i \in DOMAIN node.children}
    [] OTHER -> LegalFields(node.node1) \cup LegalFields(node.node2)

IsDecidable(node, rule) == RuleFields(rule) \subseteq LegalFields(node)

\* What a call does: it returns value, or raises the error named.
Returned(value) == [kind |-> "returned", value |-> value]
Raised(error) == [kind |-> "raised", error |-> error]

\* Node.validate returns None or raises.
NodeValidate(node) ==
  IF \E i \in DOMAIN node.rules : ~IsDecidable(node, node.rules[i])
  THEN Raised("UnrecognizedFieldsError")
  ELSE Returned(None)

MergeNodeValidateIgnoringOverlap(node) == NodeValidate(node)
MergeNodeValidate(node) ==
  IF NodeValidate(node) # Returned(None) THEN NodeValidate(node)
  ELSE IF ~PairwiseDisjoint([i \in DOMAIN node.children |->
                               LegalFields(node.children[i])])
  THEN Raised("OverlappingFieldsError")
  ELSE Returned(None)

CombineNodeValidate(node) ==
  IF NodeValidate(node) # Returned(None) THEN NodeValidate(node)
  ELSE IF LegalFields(node.node1) \cap LegalFields(node.node2) # {}
  THEN Raised("OverlappingFieldsError")
  ELSE IF node.peek_distance < 1 THEN Raised("ValueError")
  ELSE Returned(None)

Validate(node) ==
  CASE node.kind = "merge" -> MergeNodeValidate(node)
    [] node.kind = "combine" -> CombineNodeValidate(node)
    [] OTHER -> NodeValidate(node)

\* The nodes validate() is called on: merge nodes of up to VdMaxChildren
\* children and combine nodes, over leaves and one combine node, with no
\* rule, a rule over a legal field or a rule over a field of no child.
VdMaxChildren == 3
VdMaxPeekDistance == 2
VdChildren ==
  {LeafNode(f, <<>>) : f \in {"a", "b"}}
    \cup {CombineNode(LeafNode("b", <<>>), LeafNode("c", <<>>), <<>>, 2)}
VdRules ==
  { <<>>, <<Atom(<<"b">>, Scores(One))>>, <<Atom(<<"b", "z">>, Scores(One))>> }

InitValidate ==
  /\ fnIn \in {MergeNode(children, rules) :
                 children \in UNION {[1..n -> VdChildren] : n \in 0..VdMaxChildren},
                 rules \in VdRules}
              \cup {CombineNode(node1, node2, rules, peek_distance) :
                      node1 \in VdChildren, node2 \in VdChildren,
                      rules \in VdRules,
                      peek_distance \in 0..VdMaxPeekDistance}
  /\ fnOut = None
  /\ PkIdle
  /\ PhIdle
  /\ SmIdle
  /\ TrIdle
  /\ EmIdle
  /\ RnIdle
  /\ EzIdle
  /\ ImIdle
  /\ PfIdle

ValidateCall ==
  /\ fnOut = None
  /\ fnOut' = Validate(fnIn)
  /\ UNCHANGED fnIn
  /\ UNCHANGED <<pkVars, phVars, smVars, trVars, emVars, rnVars, ezVars, imVars, pfVars>>

NextValidate == ValidateCall

SpecValidate == InitValidate /\ [][NextValidate]_vars

(***************************************************************************)
(* distribute_rules (tree.py), called on a tree of combine and leaf nodes  *)
(* with the rules to add.                                                  *)
(***************************************************************************)
GetAtoms(rule) == IF rule.type = "atom" THEN {rule} ELSE Range(rule.rules)

HasDecidableAtom(child, rule) ==
  \E A \in GetAtoms(rule) : IsDecidable(child, A)

WithRules(node, rules) == [node EXCEPT !.rules = rules]

DistributeRulesKeepingAll(node, rules) == WithRules(node, rules \o node.rules)
RECURSIVE DistributeRules(_, _)
DistributeRules(node, rules) ==
  IF node.kind = "combine"
  THEN [node EXCEPT
         !.node1 = DistributeRules(node.node1,
                     SelectSeq(rules \o node.rules,
                               LAMBDA R : HasDecidableAtom(node.node1, R))),
         !.node2 = DistributeRules(node.node2,
                     SelectSeq(rules \o node.rules,
                               LAMBDA R : HasDecidableAtom(node.node2, R))),
         !.rules = SelectSeq(rules \o node.rules,
                             LAMBDA R : ~(\/ IsDecidable(node.node1, R)
                                          \/ IsDecidable(node.node2, R)))]
  ELSE WithRules(node, rules \o node.rules)

\* The trees rules are distributed over: a leaf, a combine node of two
\* leaves and the two combine trees of three leaves, each node with rules of
\* its own that validate() accepts; and the rules to add, up to DrMaxRules
\* atoms over the fields a, b and c.
DrMaxRules == 2
DrAtom(fields) == Atom(fields, Scores(One))
DrLeaves(field) == {LeafNode(field, <<>>), LeafNode(field, <<DrAtom(<<field>>)>>)}
DrPairs ==
  {CombineNode(node1, node2, rules, 2) :
     node1 \in DrLeaves("a"), node2 \in {LeafNode("b", <<>>)},
     rules \in { <<>>, <<Atom(<<"a", "b">>, AreDisjoint)>>,
                 <<DrAtom(<<"a">>), DrAtom(<<"b">>)>> }}
DrTrees ==
  DrLeaves("a") \cup DrPairs
    \cup {CombineNode(node1, LeafNode("c", <<>>), rules, 2) :
            node1 \in DrPairs,
            rules \in { <<>>, <<Atom(<<"a", "c">>, AreDisjoint),
                              Atom(<<"b", "c">>, AreDisjoint)>> }}
    \cup {CombineNode(LeafNode("c", <<>>), node2, <<>>, 2) : node2 \in DrPairs}
DrAtoms ==
  {DrAtom(fields) : fields \in { <<"a">>, <<"b">>, <<"a", "b">>, <<"b", "c">>,
                                 <<"a", "b", "c">> }}

InitDistribute ==
  /\ fnIn \in [node : DrTrees,
               rules : UNION {[1..n -> DrAtoms] : n \in 0..DrMaxRules}]
  /\ fnOut = None
  /\ PkIdle
  /\ PhIdle
  /\ SmIdle
  /\ TrIdle
  /\ EmIdle
  /\ RnIdle
  /\ EzIdle
  /\ ImIdle
  /\ PfIdle

DistributeCall ==
  /\ fnOut = None
  /\ fnOut' = Returned(DistributeRules(fnIn.node, fnIn.rules))
  /\ UNCHANGED fnIn
  /\ UNCHANGED <<pkVars, phVars, smVars, trVars, emVars, rnVars, ezVars, imVars, pfVars>>

NextDistribute == DistributeCall

SpecDistribute == InitDistribute /\ [][NextDistribute]_vars

(***************************************************************************)
(* PatternNode.bound_to orders its fields into a tree (tree.py): the atoms *)
(* of its rules group the fields into components (graphs.py), each         *)
(* component becomes a WeightedMultiGraph [vertices, edges, weights], and  *)
(* build_tree_from_graph collapses the graph edge by edge into a combine   *)
(* tree.  weights is the dict, a tuple of [edge, weights] in insertion     *)
(* order; an edge is a pair of fields.                                     *)
(***************************************************************************)
Lenience == [LOW |-> Rat(1, 10), MEDIUM |-> Rat(3, 10), HIGH |-> Rat(1, 2)]

\* Predicate.leniency, unless the predicate overrides it.
Leniency(predicate) ==
  IF "leniency" \in DOMAIN predicate THEN predicate.leniency
  ELSE Lenience.MEDIUM

\* graphs.components, from the K-th complete graph on; components is the
\* dict built so far.
RECURSIVE ComponentsFrom(_, _, _)
ComponentsFrom(complete_graphs, K, components) ==
  IF K > Len(complete_graphs) THEN {components[t] : t \in DOMAIN components}
  ELSE ComponentsFrom(complete_graphs, K + 1,
         Bind(Range(complete_graphs[K])
                \cup UNION {components[t] :
                              t \in Range(complete_graphs[K])
                                      \cap DOMAIN components},
              LAMBDA new_component :
                [t \in DOMAIN components \cup new_component |->
                   IF t \in new_component THEN new_component
                   ELSE components[t]]))

GraphComponents(complete_graphs) == ComponentsFrom(complete_graphs, 1, <<>>)

\* The order of the fields (their names, as < compares them).
SortedFields == <<"a", "b", "c", "d">>
FieldLt(v1, v2) ==
  \E i, j \in DOMAIN SortedFields :
    i < j /\ SortedFields[i] = v1 /\ SortedFields[j] = v2

\* The edge an atom adds to the graph, None for an atom of degree 3 or more.
EdgeOf(rule) ==
  IF Len(rule.fields) = 1 THEN <<rule.fields[1], rule.fields[1]>>
  ELSE IF Len(rule.fields) = 2
  THEN (IF FieldLt(rule.fields[1], rule.fields[2])
        THEN <<rule.fields[1], rule.fields[2]>>
        ELSE <<rule.fields[2], rule.fields[1]>>)
  ELSE None

WeightKeys(weights) == {weights[i].edge : i \in DOMAIN weights}
WeightsOf(weights, edge) ==
  weights[CHOOSE i \in DOMAIN weights : weights[i].edge = edge].weights

\* weights[edge] = ws + weights[edge] or weights[edge] + ws if the edge is a
\* key (in_front says which), else weights[edge] = ws.
AddWeights(weights, edge, ws, in_front) ==
  IF edge \in WeightKeys(weights)
  THEN [i \in DOMAIN weights |->
          IF weights[i].edge # edge THEN weights[i]
          ELSE [edge |-> edge,
                weights |-> IF in_front THEN ws \o weights[i].weights
                            ELSE weights[i].weights \o ws]]
  ELSE Append(weights, [edge |-> edge, weights |-> ws])

RECURSIVE EdgeWeightsFrom(_, _, _)
EdgeWeightsFrom(component_rules, i, weights) ==
  IF i > Len(component_rules) THEN weights
  ELSE EdgeWeightsFrom(component_rules, i + 1,
         IF EdgeOf(component_rules[i]) = None THEN weights
         ELSE AddWeights(weights, EdgeOf(component_rules[i]),
                         <<Leniency(component_rules[i].predicate)>>, FALSE))

WeightedMultiGraph(vertices, weights) ==
  [vertices |-> vertices, edges |-> WeightKeys(weights), weights |-> weights]

BuildWeightedGraph(component, rules) ==
  WeightedMultiGraph(component,
    EdgeWeightsFrom(
      SelectSeq(rules, LAMBDA p : Range(p.fields) \subseteq component),
      1, <<>>))

NewEdge(old_edge, old_vertices, new_vertex) ==
  << IF old_edge[1] \in old_vertices THEN new_vertex ELSE old_edge[1],
     IF old_edge[2] \in old_vertices THEN new_vertex ELSE old_edge[2] >>

RECURSIVE CollapsedWeightsFrom(_, _, _, _, _)
CollapsedWeightsFrom(weights, i, old_vertices, new_vertex, new_weights) ==
  IF i > Len(weights) THEN new_weights
  ELSE CollapsedWeightsFrom(weights, i + 1, old_vertices, new_vertex,
         AddWeights(new_weights,
                    NewEdge(weights[i].edge, old_vertices, new_vertex),
                    weights[i].weights, TRUE))

WithVerticesCollapsed(graph, old_vertices, new_vertex) ==
  [vertices |-> (graph.vertices \ old_vertices) \cup {new_vertex},
   edges |-> {NewEdge(e, old_vertices, new_vertex) : e \in graph.edges},
   weights |-> CollapsedWeightsFrom(graph.weights, 1, old_vertices,
                                    new_vertex, <<>>)]

ProductWeight(graph, edge) == RatProduct(WeightsOf(graph.weights, edge))

VertexWeights(graph, num_leaf_assignments) ==
  [v \in graph.vertices |->
     RatMul(Rat(num_leaf_assignments[v], 1),
            IF <<v, v>> \in graph.edges THEN ProductWeight(graph, <<v, v>>)
            ELSE One)]

EdgeKey(graph, vertex_weights, edge) ==
  RatMul(RatMul(vertex_weights[edge[1]], vertex_weights[edge[2]]),
         ProductWeight(graph, edge))

\* The edges min() may return: those between two vertices with the least
\* key (which of several, the order of a frozenset decides).
BestEdges(graph, vertex_weights) ==
  {e \in graph.edges :
     /\ e[1] # e[2]
     /\ \A e2 \in graph.edges :
          e2[1] # e2[2] =>
            ~RatLt(EdgeKey(graph, vertex_weights, e2),
                   EdgeKey(graph, vertex_weights, e))}

\* combine(node1, node2, all_or_nothing=True): the combine node with an
\* are_disjoint atom for each pair of fields of the two nodes.
CombineOf(node1, node2) ==
  CombineNode(node1, node2,
    Chain([i \in DOMAIN SortedFields |->
             Chain([j \in DOMAIN SortedFields |->
                      IF /\ SortedFields[i] \in LegalFields(node1)
                         /\ SortedFields[j] \in LegalFields(node2)
                      THEN <<Atom(<<SortedFields[i], SortedFields[j]>>, AreDisjoint)>>
                      ELSE <<>>])]),
    2)

\* The state of build_tree_from_graph before its loop; collapses counts
\* the turns of the loop.
Running(graph, node_associations, vertex_weights, collapses) ==
  [kind |-> "running", graph |-> graph,
   node_associations |-> node_associations,
   vertex_weights |-> vertex_weights, collapses |-> collapses]

\* The patterns bound: up to BtMaxRules atoms from BtAtoms, and the number
\* of candidates each field has in the document.
BtMaxRules == 3
BtPredicate(leniency) ==
  [name |-> "scores", score |-> One, leniency |-> leniency]
BtAtoms ==
  { Atom(<<"a">>, BtPredicate(Lenience.LOW)),
    Atom(<<"b", "a">>, Scores(One)),
    Atom(<<"b", "c">>, BtPredicate(Lenience.HIGH)),
    Atom(<<"c", "d">>, BtPredicate(Lenience.LOW)),
    Atom(<<"a", "b", "c">>, Scores(One)) }
BtNumLeafAssignments ==
  { [f \in Range(SortedFields) |-> 2],
    [f \in Range(SortedFields) |-> IF f \in {"a", "c"} THEN 3 ELSE 1] }

InitBuildTree ==
  /\ \E rules \in UNION {[1..n -> BtAtoms] : n \in 1..BtMaxRules} :
       fnIn \in [rules : {rules},
                 component :
                   GraphComponents([i \in DOMAIN rules |-> rules[i].fields]),
                 num_leaf_assignments : BtNumLeafAssignments]
  /\ fnOut = None
  /\ PkIdle
  /\ PhIdle
  /\ SmIdle
  /\ TrIdle
  /\ EmIdle
  /\ RnIdle
  /\ EzIdle
  /\ ImIdle
  /\ PfIdle

BuildTreeStart ==
  /\ fnOut = None
  /\ \E graph \in {BuildWeightedGraph(fnIn.component, fnIn.rules)} :
       fnOut' = Running(graph,
                        [v \in graph.vertices |-> LeafNode(v, <<>>)],
                        VertexWeights(graph, fnIn.num_leaf_assignments), 0)
  /\ UNCHANGED fnIn
  /\ UNCHANGED <<pkVars, phVars, smVars, trVars, emVars, rnVars, ezVars, imVars, pfVars>>

BuildTreeCollapse ==
  /\ fnOut.kind = "running"
  /\ Cardinality(fnOut.graph.vertices) > 1
  /\ \E best_edge \in BestEdges(fnOut.graph, fnOut.vertex_weights) :
       fnOut' = Running(
         WithVerticesCollapsed(fnOut.graph, {best_edge[1], best_edge[2]},
                               best_edge[1]),
         [fnOut.node_associations EXCEPT
            ![best_edge[1]] = CombineOf(fnOut.node_associations[best_edge[1]],
                                        fnOut.node_associations[best_edge[2]])],
         [fnOut.vertex_weights EXCEPT
            ![best_edge[1]] = EdgeKey(fnOut.graph, fnOut.vertex_weights,
                                       best_edge)],
         fnOut.collapses + 1)
  /\ UNCHANGED fnIn
  /\ UNCHANGED <<pkVars, phVars, smVars, trVars, emVars, rnVars, ezVars, imVars, pfVars>>

\* min() of an empty list raises ValueError.
BuildTreeNoEdge ==
  /\ fnOut.kind = "running"
  /\ Cardinality(fnOut.graph.vertices) > 1
  /\ BestEdges(fnOut.graph, fnOut.vertex_weights) = {}
  /\ fnOut' = Raised("ValueError")
  /\ UNCHANGED fnIn
  /\ UNCHANGED <<pkVars, phVars, smVars, trVars, emVars, rnVars, ezVars, imVars, pfVars>>

BuildTreeReturn ==
  /\ fnOut.kind = "running"
  /\ Cardinality(fnOut.graph.vertices) <= 1
  /\ \E v \in fnOut.graph.vertices :
       fnOut' = [kind |-> "returned", value |-> fnOut.node_associations[v],
                 collapses |-> fnOut.collapses]
  /\ UNCHANGED fnIn
  /\ UNCHANGED <<pkVars, phVars, smVars, trVars, emVars, rnVars, ezVars, imVars, pfVars>>

NextBuildTree ==
  BuildTreeStart \/ BuildTreeCollapse \/ BuildTreeNoEdge \/ BuildTreeReturn

SpecBuildTree == InitBuildTree /\ [][NextBuildTree]_vars

\* The index covers the square of side 8 and receives up to
\* EzMaxInserts items, each with one of the boxes EzBoxes.
EzMaxInserts == 7
Square(a, b) == BBox(Interval(a, b), Interval(a, b))
EzBoxes ==
  { Square(0, 2), Square(2, 6),
    BBox(Interval(4, 8), Interval(4, 6)) }

InitEZBox ==
  /\ ez \in {EZBox(Square(0, 8), ratio) : ratio \in {1, 20}}
  /\ ezItems = <<>>
  /\ PkIdle
  /\ PhIdle
  /\ SmIdle
  /\ TrIdle
  /\ EmIdle
  /\ RnIdle
  /\ FnIdle
  /\ ImIdle
  /\ PfIdle

EZBoxInsert ==
  /\ Len(ezItems) < EzMaxInserts
  /\ \E bbox \in EzBoxes :
       \E t \in {[id |-> Len(ezItems) + 1, bbox |-> bbox]} :
         /\ ContainsBBox(ez.bbox, bbox)
         /\ ez' = EZInsert(ez, t)
         /\ ezItems' = Append(ezItems, t)
  /\ UNCHANGED <<pkVars, phVars, smVars, trVars, emVars, rnVars, fnVars, imVars, pfVars>>

NextEZBox == EZBoxInsert

SpecEZBox == InitEZBox /\ [][NextEZBox]_vars

(***************************************************************************)
(* Impingement (impingement.py): [I, opacities], the base interval and the *)
(* dict _opacities, a tuple of [interval, opacity] in insertion order.     *)
(***************************************************************************)
IntervalLength(I) == I.b - I.a

Impingement(I) ==
  [I |-> I, opacities |-> << [interval |-> I, opacity |-> Zero] >>]

DictKeys(d) == {d[i].interval : i \in DOMAIN d}
DictGet(d, key) == d[CHOOSE i \in DOMAIN d : d[i].interval = key].opacity
DictDel(d, key) == SelectSeq(d, LAMBDA item : item.interval # key)
\* d[key] = value: an existing key keeps its place.
DictSet(d, key, value) ==
  IF key \in DictKeys(d)
  THEN [i \in DOMAIN d |->
          IF d[i].interval = key THEN [interval |-> key, opacity |-> value]
          ELSE d[i]]
  ELSE Append(d, [interval |-> key, opacity |-> value])

\* One turn of the loop of incorporate_subdivision.
IncorporateInto(opacities, subdivision, I, new_opacity) ==
  Bind(DictGet(opacities, subdivision), LAMBDA old_opacity :
    IF ~RatLt(old_opacity, new_opacity) THEN opacities
    ELSE Bind(DictDel(opacities, subdivision), LAMBDA d :
      IF I.a <= subdivision.a /\ I.b >= subdivision.b
      THEN DictSet(d, Interval(subdivision.a, subdivision.b), new_opacity)
      ELSE IF I.a <= subdivision.a /\ I.b < subdivision.b
      THEN DictSet(DictSet(d, Interval(subdivision.a, I.b), new_opacity),
                   Interval(I.b, subdivision.b), old_opacity)
      ELSE IF I.a > subdivision.a /\ I.b >= subdivision.b
      THEN DictSet(DictSet(d, Interval(subdivision.a, I.a), old_opacity),
                   Interval(I.a, subdivision.b), new_opacity)
      ELSE DictSet(DictSet(DictSet(d, Interval(subdivision.a, I.a), old_opacity),
                           Interval(I.a, I.b), new_opacity),
                   Interval(I.b, subdivision.b), old_opacity)))

RECURSIVE IncorporateFrom(_, _, _, _, _)
IncorporateFrom(opacities, intersecting_subdivisions, k, I, new_opacity) ==
  IF k > Len(intersecting_subdivisions) THEN opacities
  ELSE IncorporateFrom(
         IncorporateInto(opacities, intersecting_subdivisions[k].interval, I,
                         new_opacity),
         intersecting_subdivisions, k + 1, I, new_opacity)

\* incorporate_subdivision of a valid interval with an opacity in [0, 1].
IncorporateSubdivision(self, I, new_opacity) ==
  IF IntervalLength(I) <= 0 THEN self
  ELSE [self EXCEPT !.opacities =
          IncorporateFrom(@, SelectSeq(@, LAMBDA item :
                                            IntersectsInterval(I, item.interval)),
                          1, I, new_opacity)]

RECURSIVE Gcd(_, _)
Gcd(a, b) == IF b = 0 THEN a ELSE Gcd(b, a % b)
\* The same number in lowest terms.
Reduced(r) == Rat(r.n \div Gcd(r.n, r.d), r.d \div Gcd(r.n, r.d))

RECURSIVE WeightedOpacityFrom(_, _)
\* The sum of opacity * interval.length over the items from the k-th on.
WeightedOpacityFrom(opacities, k) ==
  IF k > Len(opacities) THEN Zero
  ELSE Reduced(RatAdd(RatMul(opacities[k].opacity,
                             Rat(IntervalLength(opacities[k].interval), 1)),
                      WeightedOpacityFrom(opacities, k + 1)))

\* total_impingement.
TotalImpingement(self) ==
  Reduced(RatDiv(WeightedOpacityFrom(self.opacities, 1), IntervalLength(self.I)))

\* Up to ImMaxCalls calls on the base interval [0, 3], each with one of the
\* intervals ImIntervals and one of the opacities ImOpacities.
ImMaxCalls == 3
ImIntervals ==
  { Interval(0, 2), Interval(1, 2), Interval(2, 3), Interval(0, 3),
    Interval(1, 1) }
ImOpacities == {Rat(5, 10), Rat(7, 10), Rat(9, 10)}

InitImpingement ==
  /\ im = Impingement(Interval(0, 3))
  /\ imIn = <<>>
  /\ PkIdle
  /\ PhIdle
  /\ SmIdle
  /\ TrIdle
  /\ EmIdle
  /\ RnIdle
  /\ FnIdle
  /\ EzIdle
  /\ PfIdle

ImpingementIncorporate ==
  /\ Len(imIn) < ImMaxCalls
  /\ \E I \in ImIntervals, new_opacity \in ImOpacities :
       /\ im' = IncorporateSubdivision(im, I, new_opacity)
       /\ imIn' = Append(imIn, [interval |-> I, opacity |-> new_opacity])
  /\ UNCHANGED <<pkVars, phVars, smVars, trVars, emVars, rnVars, fnVars, ezVars, pfVars>>

NextImpingement == ImpingementIncorporate

SpecImpingement == InitImpingement /\ [][NextImpingement]_vars

(***************************************************************************)
(* A combine node with an are_arranged rule, next to the same node with    *)
(* TrivialPrefilters.  The document is one line of PfNumEntities entities, *)
(* each on one of PfIntervals, and both leaves score every entity 1.       *)
(***************************************************************************)
PfNumEntities == 2

PfIntervals ==
  {Interval(0, 1), Interval(2, 3), Interval(4, 5), Interval(3, 6)}

PfDocuments ==
  {Document(BBox(Interval(0, 8), Interval(0, 1)),
            [e \in 1..PfNumEntities |-> BBox(ix[e], Interval(0, 1))], 1) :
     ix \in [1..PfNumEntities -> PfIntervals]}

\* are_arranged(direction, taper, min_distance, max_distance) bound to the
\* document.
PfPredicates(document) ==
  {AreArranged(direction, p[1], p[2], p[3], document) :
     direction \in {"LEFT_TO_RIGHT", "RIGHT_TO_LEFT"},
     p \in {<<1, 0, None>>, <<1, 0, Some(2)>>, <<2, 1, Some(1)>>,
            <<0, 0, Some(3)>>, <<1, 0 - 3, Some(0 - 1)>>}}

WithTrivialPrefilters(n) ==
  [n EXCEPT !.smerger.streams =
              [i \in DOMAIN @ |-> [@[i] EXCEPT !.prefilter = TrivialPrefilter]]]

InitPrefilter ==
  /\ \E document \in PfDocuments, order \in {"fifo", "lifo"},
        all_or_nothing \in BOOLEAN :
       \E predicate \in PfPredicates(document),
          table \in {[e \in 1..PfNumEntities |-> One]} :
         /\ tr = BoundCombineNode(
                   TrLeaf("_p", table), TrLeaf("q", table),
                   {Atom(<<"_p", "q">>, predicate)}, all_or_nothing, 1, order)
         /\ pfTree = WithTrivialPrefilters(tr)
  /\ trOut = <<>>
  /\ trStop = FALSE
  /\ pfOut = <<>>
  /\ pfStop = FALSE
  /\ PkIdle
  /\ PhIdle
  /\ SmIdle
  /\ EmIdle
  /\ RnIdle
  /\ FnIdle
  /\ EzIdle
  /\ ImIdle

\* next(root) on both trees.
PrefilterCall ==
  /\ ~trStop \/ ~pfStop
  /\ IF trStop THEN UNCHANGED trVars
     ELSE \E r \in {IterNext(tr)} :
            /\ tr' = r.it
            /\ trStop' = (r.out.kind = "stop")
            /\ trOut' = IF r.out.kind = "stop" THEN trOut
                        ELSE Append(trOut, r.out)
  /\ IF pfStop THEN UNCHANGED pfVars
     ELSE \E r \in {IterNext(pfTree)} :
            /\ pfTree' = r.it
            /\ pfStop' = (r.out.kind = "stop")
            /\ pfOut' = IF r.out.kind = "stop" THEN pfOut
                        ELSE Append(pfOut, r.out)
  /\ UNCHANGED <<pkVars, phVars, smVars, emVars, rnVars, fnVars, ezVars, imVars>>

NextPrefilter == PrefilterCall

SpecPrefilter == InitPrefilter /\ [][NextPrefilter]_vars

(***************************************************************************)
(* Claims about the Peeker                                                 *)
(***************************************************************************)
\* The inputs the k-th call can choose from: the first peek_distance + k
\* inputs, less what the earlier calls returned.
PkCandidates(k) ==
  {pkIn[i] : i \in 1..Min2(pk.peek_distance + k, Len(pkIn))}
    \ {pkOut[j] : j \in 1..(k - 1)}

\* C4: with peek_distance >= 1 the k-th call returns a minimum of the first
\* peek_distance + k inputs not returned before; every input is returned
\* exactly once, and StopIteration comes with the call after the last one.
C4_PeekerWindowMin ==
  pk.peek_distance >= 1 =>
    /\ \A k \in 1..Len(pkOut) :
         /\ pkOut[k] \in PkCandidates(k)
         /\ \A c \in PkCandidates(k) : ~Lt(c, pkOut[k])
    /\ Len(pkOut) <= Len(pkIn)
    /\ pkStop => Len(pkOut) = Len(pkIn)

C4_Witness ==
  /\ pkStop
  /\ pk.peek_distance = 2
  /\ Len(pkIn) = 3
  /\ pkOut # pkIn

\* C5 as stated: with peek_distance = 1 the elements come out in their
\* original order.
C5_PassThroughAtOne ==
  pk.peek_distance = 1 => \A k \in 1..Len(pkOut) : pkOut[k] = pkIn[k]

NonDecreasing(s) == \A i \in 1..(Len(s) - 1) : ~Lt(s[i + 1], s[i])

\* C5 amended: peek_distance = 0 is the plain pass-through; peek_distance = 1
\* returns the input order exactly when the input is non-decreasing.
C5_PassThroughAtZero ==
  /\ pk.peek_distance = 0 => \A k \in 1..Len(pkOut) : pkOut[k] = pkIn[k]
  /\ (pk.peek_distance = 1 /\ pkStop) => (pkOut = pkIn <=> NonDecreasing(pkIn))

C5_Witness ==
  /\ pkStop
  /\ pk.peek_distance = 0
  /\ Len(pkIn) = 3
  /\ ~NonDecreasing(pkIn)
  /\ pkOut = pkIn

(***************************************************************************)
(* Claims about the PeekingHeap                                            *)
(***************************************************************************)
PhAllInputs == UNION {{phIn[i][j] : j \in 1..Len(phIn[i])} : i \in 1..Len(phIn)}

\* C6: next succeeds once per input element, returns each input element
\* once and nothing else, and then raises StopIteration.
C6_PeekingHeapUnion ==
  /\ \A k \in 1..Len(phOut) : phOut[k] \in PhAllInputs
  /\ \A j, k \in 1..Len(phOut) : j # k => phOut[j] # phOut[k]
  /\ phStop => Len(phOut) = Cardinality(PhAllInputs)

C6_Witness ==
  /\ phStop
  /\ Len(phIn) = 3
  /\ Len(phOut) = 2 * PhMaxLen + 1
  /\ ph.peek_distance = 2

(***************************************************************************)
(* Claims about the Smerger                                                *)
(***************************************************************************)
RECURSIVE CountIn(_, _)
CountIn(s, x) ==
  IF s = <<>> THEN 0
  ELSE (IF Head(s) = x THEN 1 ELSE 0) + CountIn(Tail(s), x)

SmPairs == {<<smIn.lists[1][i], smIn.lists[2][j]>> :
              i \in DOMAIN smIn.lists[1], j \in DOMAIN smIn.lists[2]}

\* C1: with all_or_nothing = False, when the Smerger stops every pair of
\* items of the two streams has been handed to the merger exactly once, and
\* every merge result that is not None has been returned exactly once.
C1_EveryPairOnce ==
  (smStop /\ ~sm.all_or_nothing) =>
    /\ \A p \in SmPairs : CountIn(sm.calls, p) = 1
    /\ Len(sm.calls) = Cardinality(SmPairs)
    /\ \A p \in SmPairs :
         Merger(sm.merger, p) # None => CountIn(smOut, Merger(sm.merger, p)) = 1
    /\ Len(smOut) = Cardinality({p \in SmPairs : Merger(sm.merger, p) # None})

C1_Witness ==
  /\ smStop
  /\ ~sm.all_or_nothing
  /\ Cardinality(SmPairs) = (SmMaxLen + 1) * SmMaxLen
  /\ Len(smOut) > 0
  /\ Len(smOut) < Cardinality(SmPairs)
  /\ smIn.d = 2
  /\ sm.optimistic

\* The first peek of stream i at initialisation.
SmFirstPeek(i) ==
  PeekerTop(PeekerInitialize(PeekerNew(ListIter(smIn.lists[i]), smIn.d)))

SmEndsWithEmpty(i) ==
  LET l == smIn.lists[i]
  IN l # <<>> /\ SEIsEmpty(l[Len(l)])

C2_Premise ==
  /\ sm.all_or_nothing
  /\ \A i \in DOMAIN smIn.lists : SmEndsWithEmpty(i)
  /\ \E i \in DOMAIN smIn.lists :
       SmFirstPeek(i) # None /\ SEIsEmpty(SmFirstPeek(i))

\* C2: with all_or_nothing = True and streams that end with their empty
\* extraction, if the first peek of some stream is the empty extraction
\* then only empty extractions are returned, and at least one is.
C2_OnlyEmpty ==
  C2_Premise =>
    /\ \A k \in 1..Len(smOut) : SEIsEmpty(smOut[k])
    /\ smStop => Len(smOut) >= 1

C2_Witness ==
  /\ C2_Premise
  /\ smStop
  /\ Len(smOut) = 1
  /\ \E i \in DOMAIN smIn.lists : Len(smIn.lists[i]) = SmMaxLen + 1

\* C3 as stated: StopIteration is raised exactly when the heap is empty and
\* every peeker is exhausted.
C3_StopIffExhausted ==
  smAt # None =>
    (smStop <=> (smAt.heap = <<>> /\ HasTop(smAt) = {}))

\* C3 amended: StopIteration is raised exactly when the heap is empty after
\* the stepping, and then either every peeker is exhausted or some stream
\* has yielded nothing (its prefilter has no best item).
C3_StopIffHeapEmpty ==
  smAt # None =>
    /\ smStop <=> smAt.heap = <<>>
    /\ smAt.heap = <<>> => (HasTop(smAt) = {} \/ ~AllHaveBest(smAt))

C3_Witness ==
  /\ smStop
  /\ smAt.heap = <<>>
  /\ HasTop(smAt) = {}
  /\ AllHaveBest(smAt)
  /\ Len(smOut) = 0
  /\ Len(sm.calls) = SmMaxLen * (SmMaxLen - 1)

(***************************************************************************)
(* Claims about the bound nodes                                            *)
(***************************************************************************)
\* What a node returned so far: a pattern node returns the public part of
\* what it caches.
Yielded(n) ==
  IF n.kind = "pattern" THEN n.public_extractions ELSE n.returned_extractions

\* The nodes of the tree under n, n first.
RECURSIVE Nodes(_)
Nodes(n) ==
  <<n>> \o Chain([i \in DOMAIN ChildNodes(n) |-> Nodes(ChildNodes(n)[i])])

AssignedFieldsAboveMinimum(S) ==
  \A F \in SEFields(S) :
    F \in DOMAIN S.field_scores /\ RatLt(Rat(1, 10), S.field_scores[F])

UnfilledFieldsScoreZero(S) ==
  \A F \in DOMAIN S.field_scores \ SEFields(S) : RatEq(S.field_scores[F], Zero)

\* C7: every ScoredExtraction a bound leaf, combine or pick-best node
\* yielded is valid: each field it assigns has a field score strictly
\* greater than 1/10, and each field it scores without assigning it has
\* field score 0.
C7_YieldedAreValid ==
  \A i \in DOMAIN Nodes(tr) :
    Nodes(tr)[i].kind \in {"leaf", "combine", "pick_best"} =>
      \A k \in DOMAIN Yielded(Nodes(tr)[i]) :
        /\ AssignedFieldsAboveMinimum(Yielded(Nodes(tr)[i])[k])
        /\ UnfilledFieldsScoreZero(Yielded(Nodes(tr)[i])[k])

\* A combine node that stopped after it yielded an extraction with an
\* assignment and after its merger turned down a pair whose merge gives a
\* field the score 1/10 exactly.
C7_Witness ==
  /\ trStop
  /\ tr.kind = "combine"
  /\ \E k \in DOMAIN trOut : trOut[k].extraction # <<>>
  /\ \E c \in DOMAIN tr.smerger.calls :
       LET M == Merge(tr.smerger.calls[c], tr.rules, tr.mass)
       IN /\ \E F \in SEFields(M) : RatEq(M.field_scores[F], Rat(1, 10))
          /\ \A F \in SEFields(M) : ~RatLt(M.field_scores[F], Rat(1, 10))
          /\ \A k \in DOMAIN trOut : trOut[k].extraction # M.extraction

\* C8: every ScoredExtraction any bound node yielded has
\* score = (sum of the values of its field_scores) / mass.
C8_ScoreIsSumOverMass ==
  \A i \in DOMAIN Nodes(tr) :
    \A k \in DOMAIN Yielded(Nodes(tr)[i]) :
      LET S == Yielded(Nodes(tr)[i])[k]
      IN RatEq(S.score, ExtractionScore(S.field_scores, S.mass))

\* C9 as stated: for every ScoredExtraction any bound node yielded, the keys
\* of field_scores are the fields the extraction assigns.
C9_KeysAreAssignedFields ==
  \A i \in DOMAIN Nodes(tr) :
    \A k \in DOMAIN Yielded(Nodes(tr)[i]) :
      LET S == Yielded(Nodes(tr)[i])[k]
      IN DOMAIN S.field_scores = SEFields(S)

\* C9 as amended: for every ScoredExtraction any bound node yielded, every
\* field the extraction assigns is a key of field_scores, and every other
\* key of field_scores has the score 0.
C9_KeysCoverAssignedFields ==
  \A i \in DOMAIN Nodes(tr) :
    \A k \in DOMAIN Yielded(Nodes(tr)[i]) :
      LET S == Yielded(Nodes(tr)[i])[k]
      IN /\ SEFields(S) \subseteq DOMAIN S.field_scores
         /\ \A F \in DOMAIN S.field_scores \ SEFields(S) :
              RatEq(S.field_scores[F], Zero)

\* A pattern node over a private and a public field that stopped after it
\* returned an extraction that assigns its public field and the empty
\* extraction, which scores the public field without assigning it.
C9_Witness ==
  /\ trStop
  /\ tr.kind = "pattern"
  /\ "_p" \in tr.child.legal_fields
  /\ \E k \in DOMAIN trOut : SEFields(trOut[k]) = {"q"}
  /\ \E k \in DOMAIN trOut :
       /\ trOut[k].extraction = <<>>
       /\ DOMAIN trOut[k].field_scores = {"q"}

(***************************************************************************)
(* Claims about Extraction.merge                                           *)
(***************************************************************************)
EmOverlap ==
  \E i, j \in DOMAIN emIn :
    i # j /\ ExFields(emIn[i]) \cap ExFields(emIn[j]) # {}

RECURSIVE EmCountInputs(_, _)
EmCountInputs(point, i) ==
  IF i > Len(emIn) THEN 0
  ELSE Cardinality({k \in DOMAIN emIn[i] : emIn[i][k] = point})
         + EmCountInputs(point, i + 1)

\* C10: Extraction.merge raises OverlappingFieldsError whenever a field
\* occurs in more than one input, and otherwise returns an extraction that
\* holds exactly the assignments of all inputs, no field twice.
C10_MergeRaisesOrUnites ==
  emDone =>
    /\ emOut.raised <=> EmOverlap
    /\ ~emOut.raised =>
         /\ \A point \in EmPoints :
              Cardinality({k \in DOMAIN emOut.ex : emOut.ex[k] = point})
                = EmCountInputs(point, 1)
         /\ \A i, j \in DOMAIN emOut.ex :
              i # j => emOut.ex[i].field # emOut.ex[j].field

\* Three inputs of which only the first and the last have a field in
\* common, merged.
C10_Witness ==
  /\ emDone
  /\ Len(emIn) = 3
  /\ ExFields(emIn[1]) \cap ExFields(emIn[3]) # {}
  /\ ExFields(emIn[1]) \cap ExFields(emIn[2]) = {}
  /\ ExFields(emIn[2]) \cap ExFields(emIn[3]) = {}
  /\ emIn[2] # <<>>
  /\ emOut.raised

\* C11: every extraction a BoundCombineNode built with all_or_nothing = True
\* yielded is the empty extraction or assigns every field of the node's
\* legal_fields.
C11_AllOrNothing ==
  \A i \in DOMAIN Nodes(tr) :
    LET n == Nodes(tr)[i]
    IN (n.kind = "combine" /\ n.smerger.all_or_nothing) =>
         \A k \in DOMAIN Yielded(n) :
           \/ Yielded(n)[k].extraction = <<>>
           \/ SEFields(Yielded(n)[k]) = n.legal_fields

\* An all_or_nothing combine node that stopped after it yielded a full and
\* the empty extraction, and whose merger was handed a pair that fills only
\* one of the two fields.
C11_Witness ==
  /\ trStop
  /\ tr.kind = "combine"
  /\ tr.smerger.all_or_nothing
  /\ \E k \in DOMAIN trOut : SEFields(trOut[k]) = tr.legal_fields
  /\ \E k \in DOMAIN trOut : trOut[k].extraction = <<>>
  /\ \E c \in DOMAIN tr.smerger.calls :
       /\ tr.smerger.calls[c][1].extraction # <<>>
       /\ tr.smerger.calls[c][2].extraction = <<>>

\* C12: the candidate list a BoundLeafNode is built with is in
\* non-increasing field-score order, holds no invalid assignment, and ends
\* with the empty extraction, its only one; also when the document has no
\* entity of the leaf's type.
C12_LeafCandidates ==
  \A i \in DOMAIN Nodes(tr) :
    LET n == Nodes(tr)[i]
        ex == n.extractions
    IN n.kind = "leaf" =>
         /\ ex # <<>>
         /\ ex[Len(ex)].extraction = <<>>
         /\ \A k \in 1..(Len(ex) - 1) :
              /\ ex[k].extraction # <<>>
              /\ ~RatLt(ex[k].field_scores[n.field],
                        ex[k + 1].field_scores[n.field])
         /\ \A k \in DOMAIN ex :
              ex[k].extraction # <<>> =>
                RatLt(Rat(1, 10), ex[k].field_scores[n.field])

\* A leaf whose candidates are not in document order: the second entity
\* scores higher than the first and stands before it, the empty extraction
\* is last.
C12_Witness ==
  /\ tr.kind = "leaf"
  /\ Len(tr.extractions) = 3
  /\ tr.extractions[1].extraction = <<Point(tr.field, 2)>>
  /\ tr.extractions[2].extraction = <<Point(tr.field, 1)>>
  /\ tr.extractions[3].extraction = <<>>
  /\ trStop

\* C15: a bound EmptyNode yields the empty extraction, and nothing else,
\* before it stops.
C15_EmptyNodeYieldsEmpty ==
  (tr.kind = "empty" /\ trStop) =>
    /\ Len(trOut) = 1
    /\ trOut[1].extraction = <<>>

\* C13: the last extraction a bound node pumped until it stops yielded is
\* the empty extraction, so it yielded at least one.
C13_LastIsEmpty ==
  trStop => /\ trOut # <<>>
            /\ trOut[Len(trOut)].extraction = <<>>

\* The document offers the tree no candidate: every leaf has the empty
\* extraction only.
NoCandidates ==
  \A i \in DOMAIN Nodes(tr) :
    Nodes(tr)[i].kind = "leaf" => Len(Nodes(tr)[i].extractions) = 1

\* C14: bound to a document that offers no candidate entity for any of the
\* tree's fields, the root pumped until it stops yields exactly one
\* extraction, the empty one, with score 0.
C14_EmptyDocumentYieldsOneEmpty ==
  (trStop /\ NoCandidates) =>
    /\ Len(trOut) = 1
    /\ trOut[1].extraction = <<>>
    /\ RatEq(trOut[1].score, Zero)


\* The candidates of a node: what its children have yielded.
Candidates(n) ==
  UNION { {Yielded(ChildNodes(n)[i])[k] : k \in DOMAIN Yielded(ChildNodes(n)[i])} :
          i \in DOMAIN ChildNodes(n) }

\* The score of a candidate renormalised to the mass of n.
Renormalised(n, S) == ExtractionScore(S.field_scores, n.mass)

\* The candidates the rules of n itself leave valid.
Accepted(n) ==
  {c \in Candidates(n) :
     /\ Merge(<<c>>, n.rules, n.mass) # Error
     /\ SEValid(Merge(<<c>>, n.rules, n.mass))}

\* S assigns what a candidate in the set cands assigns, and no candidate in
\* cands has a higher renormalised score than that one.
IsHighestOf(n, S, cands) ==
  \E c \in cands :
    /\ c.extraction = S.extraction
    /\ \A c2 \in cands : ~RatLt(Renormalised(n, c), Renormalised(n, c2))

IsEarliestBest(returned, best) ==
  IF returned = <<>> THEN best = None
  ELSE /\ best # None
       /\ \E k \in DOMAIN returned :
            /\ returned[k] = best
            /\ \A j \in DOMAIN returned :
                 /\ ~RatLt(best.score, returned[j].score)
                 /\ j < k => RatLt(returned[j].score, best.score)

\* C19 as stated: the root's returned_extractions is exactly the sequence
\* of extractions it has yielded, and every node's best_extraction is the
\* earliest element of its returned_extractions with the maximum score.
C19_HistoryIsYielded ==
  /\ tr.returned_extractions = trOut
  /\ \A i \in DOMAIN Nodes(tr) :
       IsEarliestBest(Nodes(tr)[i].returned_extractions,
                      Nodes(tr)[i].best_extraction)

\* C19 amended: the root's returned_extractions is the sequence of
\* extractions it has yielded, except that a BoundPatternNode lists its
\* child's extractions, private fields included, whose public parts it
\* yielded; every node's best_extraction is the earliest element of its
\* returned_extractions with the maximum score, None when there is none.
C19_HistoryIsYieldedOrItsSource ==
  /\ IF tr.kind = "pattern"
     THEN /\ Len(tr.returned_extractions) = Len(trOut)
          /\ \A k \in DOMAIN trOut :
               trOut[k] = PublicExtraction(tr, tr.returned_extractions[k])
     ELSE tr.returned_extractions = trOut
  /\ \A i \in DOMAIN Nodes(tr) :
       IsEarliestBest(Nodes(tr)[i].returned_extractions,
                      Nodes(tr)[i].best_extraction)

\* A pattern root has stopped; it cached an extraction with a private field
\* of which it yielded the public part, and two of its cached extractions
\* share the maximum score.
C19_Witness ==
  /\ trStop
  /\ tr.kind = "pattern"
  /\ \E k \in DOMAIN trOut :
       /\ tr.returned_extractions[k] # trOut[k]
       /\ \E P \in Range(tr.returned_extractions[k].extraction) :
            P.field \in PrivateFields
  /\ \E j, k \in DOMAIN tr.returned_extractions :
       /\ j < k
       /\ tr.returned_extractions[j] = tr.best_extraction
       /\ RatEq(tr.returned_extractions[k].score, tr.best_extraction.score)


(***************************************************************************)
(* Claims about run_model and generate_results                             *)
(***************************************************************************)
\* run_model is over: it returned or raised.
RunEnded == rnPc \in {"returned", "raised"}

\* C17: run_model with num_samples = n >= 0, 0 included, never has the root
\* yield more than n extractions, leaves the loop only when the root has
\* yielded n or is exhausted, and then returns a Results record; with n < 0
\* it leaves the loop only when the root raised StopIteration.
C17_StopsAfterNumSamples ==
  /\ rnConfig.num_samples >= 0 => Len(trOut) <= rnConfig.num_samples
  /\ rnPc # "pumping" =>
       \/ trStop
       \/ rnConfig.num_samples >= 0 /\ Len(trOut) = rnConfig.num_samples
  /\ RunEnded => rnPc = "returned" /\ rnResults.kind = "results"

\* C18: when the deadline expired while run_model was pumping the root, the
\* run ends with timed_out set and with every extraction the root has
\* yielded in the Results; the root ResultsNode is absent only if nothing
\* was yielded.
C18_TimeoutKeepsPartialResults ==
  (rnExpired /\ RunEnded) =>
    /\ rnPc = "returned"
    /\ rnResults.timed_out
    /\ rnResults.root = None <=> tr.returned_extractions = <<>>
    /\ rnResults.root # None =>
         Range(tr.returned_extractions)
           \subseteq Range(rnResults.root.top_20_extractions)

\* The number of extractions a ResultsNode is to hold at most.
TopN == 20

\* The nodes of the results tree under results_node, results_node first.
RECURSIVE ResultsNodes(_)
ResultsNodes(results_node) ==
  <<results_node>>
    \o Chain([i \in DOMAIN results_node.child_nodes |->
                ResultsNodes(results_node.child_nodes[i])])

\* top holds the n highest-scoring elements of returned (all of them if
\* there are fewer), in non-increasing score order.
IsTopOf(top, returned, n) ==
  /\ Len(top) = Min2(n, Len(returned))
  /\ \A k \in DOMAIN top :
       /\ \E j \in DOMAIN returned : returned[j] = top[k]
       /\ k > 1 => ~RatLt(top[k - 1].score, top[k].score)
  /\ \A j \in DOMAIN returned :
       \/ \E k \in DOMAIN top : top[k] = returned[j]
       \/ ~RatLt(top[Len(top)].score, returned[j].score)

\* C20: every ResultsNode generate_results produced holds at most 20
\* extractions in non-increasing score order, and the root's are the 20
\* highest-scoring ones the bound root yielded, all of them if fewer.
C20_AtMostTwenty ==
  (rnPc = "returned" /\ rnResults.root # None) =>
    /\ \A i \in DOMAIN ResultsNodes(rnResults.root) :
         LET top == ResultsNodes(rnResults.root)[i].top_20_extractions
         IN  /\ Len(top) <= TopN
             /\ \A k \in DOMAIN top :
                  k > 1 => ~RatLt(top[k - 1].score, top[k].score)
    /\ IsTopOf(rnResults.root.top_20_extractions, tr.returned_extractions,
               TopN)


(***************************************************************************)
(* Claims about the PeekingHeap of a pick-best node                        *)
(***************************************************************************)
\* The entries of the heap of H that name peeker i.
EntriesOf(H, i) == {k \in DOMAIN H.heap : H.heap[k].peeker = i}

\* The entry the next call pops, the first of the heap list, has a recorded
\* top that no other entry's top is less than, and among the entries whose
\* tops compare equal with its own it has the smallest counter.
PopsEarliestSmallest(H) ==
  \A k \in DOMAIN H.heap :
    /\ ~ItemLt(H.heap[k].top, H.heap[1].top)
    /\ ~ItemLt(H.heap[1].top, H.heap[k].top)
         => H.heap[1].counter <= H.heap[k].counter

\* Every peeker that still has a top has exactly one entry, which records
\* its normalised top; a peeker without a top has none.
OneEntryEach(H) ==
  \A i \in DOMAIN H.peekers :
    IF PeekerTop(H.peekers[i]) # None
    THEN /\ Cardinality(EntriesOf(H, i)) = 1
         /\ \A k \in EntriesOf(H, i) :
              H.heap[k].top = Normalize(H.normalizer, PeekerTop(H.peekers[i]))
    ELSE EntriesOf(H, i) = {}

\* C27: between the calls of next on the PeekingHeap of a pick-best node,
\* the entry the next call pops has the smallest recorded normalised top
\* and, among the entries whose tops compare equal, the smallest counter;
\* every peeker that is not exhausted has exactly one entry in the heap,
\* an exhausted one none.
C27_PopsEarliestSmallest ==
  (tr.kind = "pick_best" /\ tr.heap.inited) =>
    /\ PopsEarliestSmallest(tr.heap)
    /\ OneEntryEach(tr.heap)


(***************************************************************************)
(* Claims about the optimistic Smerger and its prefilters                  *)
(***************************************************************************)
\* C26: with optimistic = True, when next pops and returns an item h, no
\* stream whose peeker still has a top has an optimistic norm strictly
\* smaller than norm_getter(h).
C26_NoAppealingStreamAtPop ==
  (smAt # None /\ smAt.optimistic /\ ~smAt.failed /\ ~smStop) =>
    /\ AllHaveBest(smAt)
    /\ \A i \in HasTop(smAt) :
         ~RatLt(OptimisticNorm(smAt, i), NormGetter(smOut[Len(smOut)]))

\* The first call of an optimistic Smerger whose merger accepts every pair
\* stepped beyond the initialisation, which makes one merger call at peek
\* distance 1, and returned an item while a stream still had a top.
C26_Witness ==
  /\ smAt # None
  /\ smAt.optimistic
  /\ ~smAt.all_or_nothing
  /\ smIn.d = 1
  /\ sm.merger.rules = {Atom(SmFields, Scores(Rat(1, 2)))}
  /\ Len(smOut) = 1
  /\ Len(smAt.calls) > 1
  /\ HasTop(smAt) # {}


\* What stream i has yielded: the items of its input that are no longer in
\* its peeker, none for a stream that initialize replaced by a trivial one.
YieldedBy(i) ==
  IF sm.replaced[i] # None THEN {}
  ELSE {t \in Range(smIn.lists[i]) :
          /\ t \notin Range(sm.streams[i].peeker.heap)
          /\ t \notin Range(sm.streams[i].peeker.ts.items)}

\* The items the prefilter of stream i holds are the set S, each once.
PrefilterHolds(i, S) ==
  /\ Range(sm.streams[i].prefilter.list) = S
  /\ Len(sm.streams[i].prefilter.list) = Cardinality(S)

\* The tuples handed to the merger are the pairs of items the two
\* prefilters hold, each once: a new item was combined with what get
\* returned, which is what had been added before.
CombinedWhatGetReturned ==
  /\ Range(sm.calls) = {<<a, b>> : a \in Range(sm.streams[1].prefilter.list),
                                   b \in Range(sm.streams[2].prefilter.list)}
  /\ \A j, k \in DOMAIN sm.calls : j # k => sm.calls[j] # sm.calls[k]

\* C28 as stated: between the calls of next, the prefilter of every stream
\* holds exactly the items the stream has yielded, each once, and the items
\* combined with a new item of the other stream were those the prefilter's
\* get returned, all of them added when the stream yielded them.
C28_PrefilterHoldsYielded ==
  sm.inited =>
    /\ \A i \in DOMAIN sm.streams : PrefilterHolds(i, YieldedBy(i))
    /\ CombinedWhatGetReturned

\* C28 amended: the same, except that a stream which initialize replaced by
\* a trivial one (all_or_nothing, another stream has only its empty
\* extraction) yields nothing and its prefilter holds the one empty
\* extraction that build_trivial added.
C28_PrefilterHoldsYieldedOrTrivial ==
  sm.inited =>
    /\ \A i \in DOMAIN sm.streams :
         PrefilterHolds(i, IF sm.replaced[i] # None THEN {SEBuild}
                           ELSE YieldedBy(i))
    /\ CombinedWhatGetReturned

\* Stream 1 was replaced by a trivial one, stream 2 has yielded its empty
\* extraction, and the two were combined and returned.
C28_Witness ==
  /\ smStop
  /\ sm.replaced[1] # None
  /\ sm.replaced[2] = None
  /\ Len(smIn.lists[1]) = SmMaxLen + 1
  /\ Cardinality(YieldedBy(2)) = 1
  /\ sm.calls = << <<SEBuild, smIn.lists[2][1]>> >>
  /\ Len(smOut) = 1


\* The norms of the sequence s of items do not decrease.
NormsNonDecreasing(s) ==
  \A k \in 1..(Len(s) - 1) :
    ~RatLt(NormGetter(s[k + 1]), NormGetter(s[k]))

\* On the pairs of items of the two streams, the norm estimator does not
\* decrease when the norm of one argument grows, and it never exceeds the
\* norm of the item the merger makes of the pair.
EstimatorIsLowerBound ==
  /\ \A p \in SmPairs, q \in SmPairs :
       (/\ ~RatLt(NormGetter(q[1]), NormGetter(p[1]))
        /\ ~RatLt(NormGetter(q[2]), NormGetter(p[2])))
         => ~RatLt(NormEstimator(q), NormEstimator(p))
  /\ \A p \in SmPairs :
       Merger(sm.merger, p) # None
         => ~RatLt(NormGetter(Merger(sm.merger, p)), NormEstimator(p))

\* C30: if every input stream yields its items in non-decreasing norm
\* order, the norm estimator is non-decreasing in each argument and never
\* exceeds the norm of the merged item, and optimistic = True, then the
\* norms of the items the Smerger returns are non-decreasing.
C30_BestFirstIsExact ==
  (/\ sm.optimistic
   /\ \A i \in DOMAIN smIn.lists : NormsNonDecreasing(smIn.lists[i])
   /\ EstimatorIsLowerBound)
    => NormsNonDecreasing(smOut)

\* An optimistic Smerger over two sorted streams, one of them with items of
\* different norms, whose merger lowers the scores, has stepped beyond the
\* initialisation before its first item and has returned every pair.
C30_Witness ==
  /\ smStop
  /\ sm.optimistic
  /\ ~sm.all_or_nothing
  /\ smIn.d = 1
  /\ sm.merger.rules = {Atom(SmFields, Scores(Rat(1, 2)))}
  /\ \A i \in DOMAIN smIn.lists : NormsNonDecreasing(smIn.lists[i])
  /\ Len(smIn.lists[1]) = SmMaxLen + 1
  /\ RatLt(NormGetter(smIn.lists[1][1]), NormGetter(smIn.lists[1][2]))
  /\ Len(smIn.lists[2]) = SmMaxLen
  /\ Len(smOut) = Cardinality(SmPairs)
  /\ RatLt(NormGetter(smOut[1]), NormGetter(smOut[Len(smOut)]))
  /\ EstimatorIsLowerBound


(***************************************************************************)
(* Claims about validate()                                                 *)
(***************************************************************************)
UnboundChildNodes(node) ==
  CASE node.kind = "merge" -> node.children
    [] node.kind = "combine" -> <<node.node1, node.node2>>
    [] OTHER -> <<>>

\* Two children of the node have a legal field in common.
ChildrenOverlap(node) ==
  \E i, j \in DOMAIN UnboundChildNodes(node) :
    /\ i # j
    /\ LegalFields(UnboundChildNodes(node)[i]) \cap LegalFields(UnboundChildNodes(node)[j]) # {}

Validated == fnIn # None /\ fnIn.kind \in {"merge", "combine"} /\ fnOut # None

\* C22, as stated: validate() on a merge or combine node raises
\* OverlappingFieldsError exactly when two of its children have a legal
\* field in common.
C22_OverlapRaises ==
  Validated => (fnOut = Raised("OverlappingFieldsError") <=> ChildrenOverlap(fnIn))

\* C22, amended: it does so when every rule of the node names legal fields
\* only; a rule naming a field of no child raises UnrecognizedFieldsError
\* first, overlap or not, and a node without overlap never raises
\* OverlappingFieldsError.
C22_OverlapRaisesUnlessUnrecognized ==
  Validated =>
    /\ fnOut = Raised("OverlappingFieldsError")
         <=> (ChildrenOverlap(fnIn) /\ NodeValidate(fnIn) = Returned(None))
    /\ NodeValidate(fnIn) # Returned(None) => fnOut = Raised("UnrecognizedFieldsError")

C22_Witness ==
  /\ Validated
  /\ fnIn.kind = "merge"
  /\ Len(fnIn.children) = 3
  /\ ChildrenOverlap(fnIn)
  /\ fnIn.children[1] = LeafNode("a", <<>>)
  /\ fnIn.children[2] = LeafNode("b", <<>>)
  /\ fnOut = Raised("OverlappingFieldsError")


(***************************************************************************)
(* Claims about distribute_rules                                           *)
(***************************************************************************)
RECURSIVE Descendants(_)
Descendants(node) ==
  {node} \cup UNION {Descendants(UnboundChildNodes(node)[i]) :
                       i \in DOMAIN UnboundChildNodes(node)}

RECURSIVE Occurrences(_, _)
\* How many times the rule stands in the rules of the nodes of the tree.
Occurrences(node, rule) ==
  CountIn(node.rules, rule)
    + (IF node.kind = "combine"
       THEN Occurrences(node.node1, rule) + Occurrences(node.node2, rule)
       ELSE 0)

\* The node is the deepest one whose legal fields contain the rule's.
IsDeepestDeciding(node, rule) ==
  /\ IsDecidable(node, rule)
  /\ \A i \in DOMAIN UnboundChildNodes(node) :
       ~IsDecidable(UnboundChildNodes(node)[i], rule)

Distributed == fnIn # None /\ "node" \in DOMAIN fnIn /\ fnOut # None

\* C21: distributing atoms over a tree of combine and leaf nodes leaves
\* every atom, the added ones and the ones the nodes had, as many times as
\* it was given and only at the deepest node whose legal fields contain its
\* fields: a single-field atom at its leaf, a spanning atom at the combine
\* node whose two children it spans.
C21_AtomsAtDeepestNode ==
  Distributed =>
    \A A \in DrAtoms \cup {Atom(<<"a", "b">>, AreDisjoint),
                           Atom(<<"a", "c">>, AreDisjoint),
                           Atom(<<"b", "c">>, AreDisjoint)} :
      /\ Occurrences(fnOut.value, A)
           = CountIn(fnIn.rules, A) + Occurrences(fnIn.node, A)
      /\ IsDecidable(fnIn.node, A) =>
           \A node \in Descendants(fnOut.value) :
             CountIn(node.rules, A) > 0 => IsDeepestDeciding(node, A)

C21_Witness ==
  /\ Distributed
  /\ LegalFields(fnIn.node) = {"a", "b", "c"}
  /\ fnIn.node.node1.kind = "combine"
  /\ fnIn.node.node1.rules = <<DrAtom(<<"a">>), DrAtom(<<"b">>)>>
  /\ fnIn.rules = <<DrAtom(<<"a", "b">>), DrAtom(<<"a", "b", "c">>)>>
  /\ fnOut.value.rules = <<DrAtom(<<"a", "b", "c">>)>> \o fnIn.node.rules
  /\ fnOut.value.node1.rules = <<DrAtom(<<"a", "b">>)>>
  /\ fnOut.value.node1.node2.rules = <<DrAtom(<<"b">>)>>


(***************************************************************************)
(* Claims about build_tree_from_graph                                      *)
(***************************************************************************)
RECURSIVE LeafFields(_)
\* The fields of the leaves of a tree, left to right.
LeafFields(node) ==
  IF node.kind = "leaf" THEN <<node.field>>
  ELSE Chain([i \in DOMAIN UnboundChildNodes(node) |->
                LeafFields(UnboundChildNodes(node)[i])])

Building == fnIn # None /\ "component" \in DOMAIN fnIn /\ fnOut # None

\* C29: for every component of fields that the atoms form, whatever their
\* degree, build_tree_from_graph has an edge to collapse while more than
\* one vertex remains, and returns after |V| - 1 collapses a tree whose
\* leaves are the fields of the component, each once.
C29_CollapsesToTreeOfComponent ==
  Building =>
    /\ fnOut.kind # "raised"
    /\ (fnOut.kind = "running" /\ Cardinality(fnOut.graph.vertices) > 1) =>
         \E e \in fnOut.graph.edges : e[1] # e[2]
    /\ fnOut.kind = "returned" =>
         /\ fnOut.collapses = Cardinality(fnIn.component) - 1
         /\ Range(LeafFields(fnOut.value)) = fnIn.component
         /\ Len(LeafFields(fnOut.value)) = Cardinality(fnIn.component)

\* The same for the components that atoms of degree 1 and 2 connect.
C29_CollapsesWhenEdgesConnect ==
  (Building /\ \A i \in DOMAIN fnIn.rules : Len(fnIn.rules[i].fields) < 3) =>
    /\ fnOut.kind # "raised"
    /\ fnOut.kind = "returned" =>
         /\ fnOut.collapses = Cardinality(fnIn.component) - 1
         /\ Range(LeafFields(fnOut.value)) = fnIn.component
         /\ Len(LeafFields(fnOut.value)) = Cardinality(fnIn.component)

C29_ReturnsTreeOfFour ==
  /\ Building
  /\ fnOut.kind = "returned"
  /\ fnOut.collapses = 3
  /\ fnIn.component = {"a", "b", "c", "d"}


(***************************************************************************)
(* Claims about the EZBox                                                  *)
(***************************************************************************)
\* The boxes the index is queried with.
EzQueries ==
  { Square(0, 8), Square(0, 4), Square(0, 2), Square(2, 6), Square(1, 3),
    Square(6, 8), BBox(Interval(4, 8), Interval(0, 8)),
    BBox(Interval(3, 5), Interval(0, 8)), BBox(Interval(2, 2), Interval(0, 8)),
    BBox(Interval(0, 8), Interval(5, 7)) }

\* The sequence holds exactly the items of the set, each once.
HoldsEachOnce(s, ts) == Range(s) = ts /\ Len(s) = Cardinality(ts)

RECURSIVE HasSplitChild(_)
HasSplitChild(self) ==
  \E i \in DOMAIN self.child_nodes :
    \/ self.child_nodes[i].child_nodes # <<>>
    \/ HasSplitChild(self.child_nodes[i])

\* C24: after any sequence of inserts, with or without splits, the two
\* queries return the inserted items that a scan of them finds: those whose
\* bbox the query box contains, those whose bbox meets it, each once.
C24_QueriesAgreeWithScan ==
  ez # None =>
    \A q \in EzQueries :
      /\ HoldsEachOnce(TsContainedIn(ez, q),
                       {t \in Range(ezItems) : ContainsBBox(q, t.bbox)})
      /\ HoldsEachOnce(TsIntersecting(ez, q),
                       {t \in Range(ezItems) : IntersectsBBox(q, t.bbox)})

C24_Witness ==
  /\ ez # None
  /\ HasSplitChild(ez)
  /\ ez.straddlers # {}
  /\ Len(TsContainedIn(ez, Square(0, 4))) = 6
  /\ Len(TsIntersecting(ez, Square(0, 4))) = 7


(***************************************************************************)
(* Claims about the Impingement                                            *)
(***************************************************************************)
\* The subdivisions tile the base interval: their lengths sum to its
\* length, and none reaches outside it.
Tiles(self) ==
  /\ RatEq(SumOver([i \in DOMAIN self.opacities |->
                      Rat(IntervalLength(self.opacities[i].interval), 1)],
                   DOMAIN self.opacities),
           Rat(IntervalLength(self.I), 1))
  /\ \A i \in DOMAIN self.opacities :
       ContainsInterval(self.I, self.opacities[i].interval)

\* The opacity is the greatest among the calls whose interval covers the
\* subdivision, 0 if there is none.
IsMaxOpacityOver(opacity, subdivision, calls) ==
  LET covering == {k \in DOMAIN calls :
                     ContainsInterval(calls[k].interval, subdivision)}
  IN /\ \A k \in covering : ~RatLt(opacity, calls[k].opacity)
     /\ \/ \E k \in covering : RatEq(opacity, calls[k].opacity)
        \/ covering = {} /\ RatEq(opacity, Zero)

RECURSIVE Replay(_, _, _)
\* The impingement after the calls from the k-th on.
Replay(self, calls, k) ==
  IF k > Len(calls) THEN self
  ELSE Replay(IncorporateSubdivision(self, calls[k].interval, calls[k].opacity),
              calls, k + 1)

\* The opacity over the unit interval [c, c + 1].
OpacityOver(self, c) ==
  LET i == CHOOSE i \in DOMAIN self.opacities :
             ContainsInterval(self.opacities[i].interval, Interval(c, c + 1))
  IN self.opacities[i].opacity

\* Whatever the order of the calls, the opacity over every unit interval
\* and the total impingement are the same.
OrderIndependent ==
  \A p \in {q \in [DOMAIN imIn -> DOMAIN imIn] :
              \A i, j \in DOMAIN imIn : q[i] = q[j] => i = j} :
    LET other == Replay(Impingement(im.I), [k \in DOMAIN imIn |-> imIn[p[k]]], 1)
    IN /\ RatEq(TotalImpingement(other), TotalImpingement(im))
       /\ \A c \in im.I.a..(im.I.b - 1) :
            RatEq(OpacityOver(other, c), OpacityOver(im, c))

\* C25, as stated: after any sequence of incorporate_subdivision calls the
\* stored subdivisions tile the base interval, the opacity of each is the
\* greatest among the incorporated intervals that cover it, 0 if none does,
\* and the result does not depend on the order of the calls.
C25_EachSubdivisionHasMaxOpacity ==
  im # None =>
    /\ Tiles(im)
    /\ \A i \in DOMAIN im.opacities :
         IsMaxOpacityOver(im.opacities[i].opacity, im.opacities[i].interval, imIn)
    /\ OrderIndependent

\* The same holds for the subdivisions of positive length, the ones that
\* total_impingement weighs.
C25_EachNonEmptySubdivisionHasMaxOpacity ==
  im # None =>
    /\ Tiles(im)
    /\ \A i \in DOMAIN im.opacities :
         IntervalLength(im.opacities[i].interval) > 0 =>
           IsMaxOpacityOver(im.opacities[i].opacity,
                            im.opacities[i].interval, imIn)
    /\ OrderIndependent

C25_StaleEmptySubdivision ==
  /\ im # None
  /\ Len(imIn) = 3
  /\ imIn[1].interval = Interval(2, 3)
  /\ imIn[2].interval = Interval(0, 2)
  /\ RatLt(imIn[1].opacity, imIn[3].opacity)
  /\ RatLt(imIn[3].opacity, imIn[2].opacity)
  /\ imIn[3].interval = Interval(1, 2)
  /\ Interval(2, 2) \in DictKeys(im.opacities)
  /\ Cardinality({i \in DOMAIN im.opacities :
                    IntervalLength(im.opacities[i].interval) > 0}) = 2


(***************************************************************************)
(* C23: a combine node whose Smerger uses DocRegionPrefilters returns the  *)
(* same multiset of extractions as the one that runs the same child        *)
(* streams through TrivialPrefilters.                                      *)
(***************************************************************************)
SameMultiset(s, t) ==
  \A x \in Range(s) \cup Range(t) : CountIn(s, x) = CountIn(t, x)

C23_SameExtractionsAsTrivial ==
  (trStop /\ pfStop /\ pfTree # None) => SameMultiset(trOut, pfOut)

====
